---- MODULE Spec2Model ----
(***************************************************************************)
(* Model of the API test utilities of the e-commerce test suite:           *)
(*   - retryOnError          (src/utils/apiTestUtils.ts)                   *)
(*   - ApiPage.get/post/put/delete, validateResponse (src/unnamed/part_007)*)
(*                                                                         *)
(* Strings are modelled as sequences of word tokens so that                *)
(* String.prototype.includes is a real substring test.                     *)
(***************************************************************************)
EXTENDS Integers, Sequences, FiniteSets, TLC

VARIABLES
    \* ---- retryOnError (one call) ----
    retries,          \* argument `retries`
    retryableErrors,  \* argument `retryableErrors` (list of strings)
    pc,               \* position of the async function
    attempt,          \* loop variable `attempt`
    lastError,        \* local `lastError`
    outcome,          \* value the call resolved / rejected with
    trace,            \* history: fn invocations and backoff timers, in order
    fnOutcomes,       \* history: what each fn invocation resolved / rejected with
    \* ---- ApiPage request (one call) ----
    method,           \* which of get / post / put / delete
    options,          \* RequestOptions of the call
    response,         \* the APIResponse received (status, body text, headers)
    clock,            \* Date.now()
    startTime,        \* assertResponseTime: local startTime
    elapsed,          \* assertResponseTime: local elapsed
    phases,           \* history: time spent in each step of requestFn
    apc,              \* position of the request
    fnResult,         \* what requestFn resolved with
    apiResult,        \* what the call resolved / rejected with
    \* ---- apiConfig and assertResponseTime (one call) ----
    apiEnv,           \* process.env.API_ENV when the config module is loaded
    apiConfig,        \* the exported apiConfig
    tMaxTime,         \* argument `maxTime` (supplied or omitted)
    tpc,              \* position of assertResponseTime
    tClock,           \* Date.now()
    tStart,           \* local startTime
    tElapsed,         \* local elapsed
    tCalls,           \* history: number of invocations of fn
    tFnOutcome,       \* history: what fn settled with
    tResult,          \* what the call resolved / rejected with
    \* ---- UsersApi.login (one call) ----
    lConfig,          \* apiConfig in force
    lOptions,         \* RequestOptions handed to login
    lpc,              \* position of login
    lAttempt,         \* retryOnError: loop variable `attempt`
    lClock,           \* Date.now()
    lLastError,       \* retryOnError: local `lastError`
    lPosts,           \* history: the POST requests issued, with their times
    lMeasures,        \* history: the startTime / elapsed readings taken
    lWaits,           \* history: the backoff waits, with their times
    lResult,          \* what login resolved / rejected with
    \* ---- validateSchema (one call) ----
    sName,            \* which fixture / payload family the call is about
    sData,            \* argument `data`
    sSchema,          \* argument `schema`
    spc,              \* position of validateSchema
    sResult,          \* what the call returned / threw
    \* ---- CheckoutPage.fillBillingInfo: the fillInput calls ----
    fField,           \* index of the fillInput call in progress
    fCand,            \* index of the candidate selector in the loop
    fpc,              \* position inside fillInput
    fProbes,          \* history: the candidates tried in this call
    fFilled,          \* history: the inputs filled in this call
    fReturns,         \* what this call returned (empty while it runs)
    \* ---- product-search integration test (one run) ----
    qpc,              \* position in the test body
    qRoutes,          \* page.route handlers installed
    qAttempt,         \* search loop variable `attempt`
    qSearchSuccess,   \* local searchSuccess
    qNames,           \* local productNames
    qApi,             \* what request.get answered
    qVerdict,         \* outcome of the test
    \* ---- retryOnError: several calls on one event loop ----
    cRetries,         \* argument `retries` of each call
    cpc,              \* position of each call
    cAttempt,         \* loop variable `attempt` of each call
    cLastError,       \* local `lastError` of each call
    cCalls,           \* history: number of invocations of each fn
    cThrown,          \* history: what each fn threw last
    cOutcome,         \* what each call resolved / rejected with
    cOrder,           \* history: whose fn was invoked, in order
    \* ---- apiConfig module and one use of it ----
    gEnv,             \* process.env.API_ENV when the config module is loaded
    gConfig,          \* the exported apiConfig
    gUse,             \* the use made of apiConfig, with its argument
    gpc,              \* position: module load, then the use
    gResult,          \* what the use returned / threw
    \* ---- CheckoutPage.proceedToCheckout / continueToPayment (one call) ----
    kMethod,          \* which of the two methods runs
    kIdx,             \* index of the selector in the loop
    kpc,              \* position inside the method
    kClicked,         \* local proceedClicked / clicked
    kClicks,          \* history: the buttons clicked, in order
    kFallback,        \* history: whether the last-resort search ran
    \* ---- CheckoutPage.updateQuantity / removeItem (one call on one cart page) ----
    bCart,            \* the cart items on the page: [name, quantity]
    bCart0,           \* history: the cart before the call
    bLayout,          \* how the page marks up the cart
    bCall,            \* the call: [impl, method, productName, quantity]
    bpc,              \* position inside the method
    bDone,            \* local quantityUpdated / itemRemoved
    bTouched          \* history: names of the items whose control was used

retryVars == <<retries, retryableErrors, pc, attempt, lastError, outcome, trace, fnOutcomes>>
apiVars == <<method, options, response, clock, startTime, elapsed, phases, apc, fnResult, apiResult>>
timeVars == <<apiEnv, apiConfig, tMaxTime, tpc, tClock, tStart, tElapsed, tCalls, tFnOutcome,
              tResult>>
loginVars == <<lConfig, lOptions, lpc, lAttempt, lClock, lLastError, lPosts, lMeasures, lWaits,
               lResult>>
schemaVars == <<sName, sData, sSchema, spc, sResult>>
fillVars == <<fField, fCand, fpc, fProbes, fFilled, fReturns>>
searchVars == <<qpc, qRoutes, qAttempt, qSearchSuccess, qNames, qApi, qVerdict>>
concVars == <<cRetries, cpc, cAttempt, cLastError, cCalls, cThrown, cOutcome, cOrder>>
cfgVars == <<gEnv, gConfig, gUse, gpc, gResult>>
clickVars == <<kMethod, kIdx, kpc, kClicked, kClicks, kFallback>>
cartVars == <<bCart, bCart0, bLayout, bCall, bpc, bDone, bTouched>>
vars == <<retryVars, apiVars, timeVars, loginVars, schemaVars, fillVars, searchVars, concVars, cfgVars, clickVars, cartVars>>

\* what the actions of one component leave alone
nonRetryVars == <<apiVars, timeVars, loginVars, schemaVars, fillVars, searchVars, concVars, cfgVars, clickVars, cartVars>>
nonApiVars == <<retryVars, timeVars, loginVars, schemaVars, fillVars, searchVars, concVars, cfgVars, clickVars, cartVars>>
nonTimeVars == <<retryVars, apiVars, loginVars, schemaVars, fillVars, searchVars, concVars, cfgVars, clickVars, cartVars>>
nonLoginVars == <<retryVars, apiVars, timeVars, schemaVars, fillVars, searchVars, concVars, cfgVars, clickVars, cartVars>>
nonSchemaVars == <<retryVars, apiVars, timeVars, loginVars, fillVars, searchVars, concVars, cfgVars, clickVars, cartVars>>
nonFillVars == <<retryVars, apiVars, timeVars, loginVars, schemaVars, searchVars, concVars, cfgVars, clickVars, cartVars>>
nonSearchVars == <<retryVars, apiVars, timeVars, loginVars, schemaVars, fillVars, concVars, cfgVars, clickVars, cartVars>>
nonConcVars == <<retryVars, apiVars, timeVars, loginVars, schemaVars, fillVars, searchVars, cfgVars, clickVars, cartVars>>
nonCfgVars == <<retryVars, apiVars, timeVars, loginVars, schemaVars, fillVars, searchVars, concVars, clickVars, cartVars>>
nonClickVars == <<retryVars, apiVars, timeVars, loginVars, schemaVars, fillVars, searchVars, concVars, cfgVars, cartVars>>
nonCartVars == <<retryVars, apiVars, timeVars, loginVars, schemaVars, fillVars, searchVars, concVars, cfgVars, clickVars>>

----------------------------------------------------------------------------
(* Bounds *)

MaxRetries == 3

\* each step of a request takes 0..MaxTicks clock ticks
MaxTicks == 1

\* at most MaxEdits members of a payload are damaged at once
MaxEdits == 2

\* at most MaxNames product names are displayed
MaxNames == 2

\* interleaved retryOnError calls: how many, and their largest `retries`
MaxCallers == 2
MaxConcRetries == 1

----------------------------------------------------------------------------
(* Strings as token sequences *)

\* String.prototype.includes: s contains sub as a contiguous run
Includes(s, sub) ==
    \E i \in 1..(Len(s) + 1) :
        /\ i + Len(sub) - 1 <= Len(s)
        /\ SubSeq(s, i, i + Len(sub) - 1) = sub

TokenExpired == <<"Token", "expired">>
RateLimitExceeded == <<"Rate", "limit", "exceeded">>

\* default value of the parameter retryableErrors
DefaultRetryableErrors == <<TokenExpired, RateLimitExceeded>>

----------------------------------------------------------------------------
(* JavaScript values that fn may resolve or reject with *)

Undefined == [kind |-> "undefined", message |-> <<>>, id |-> 0]

\* an Error object created by invocation number n of fn
ErrorValue(msg, n) == [kind |-> "Error", message |-> msg, id |-> n]

\* a thrown value without a string `message` property
StringValue(n) == [kind |-> "string", message |-> <<>>, id |-> n]
NullValue(n) == [kind |-> "null", message |-> <<>>, id |-> n]
UndefinedValue(n) == [kind |-> "undefined", message |-> <<>>, id |-> n]
\* a plain object such as { code: 500 }
ObjectValue(n) == [kind |-> "object", message |-> <<>>, id |-> n]

\* the TypeError raised by `lastError.message.includes` on such a value
TypeErrorValue(n) == [kind |-> "TypeError", message |-> <<"Cannot", "read", "properties">>, id |-> n]

ResultValue(n) == [kind |-> "value", message |-> <<>>, id |-> n]

HasMessage(e) == e.kind \in {"Error", "TypeError"}

----------------------------------------------------------------------------
(* retryOnError: src/utils/apiTestUtils.ts:74-101 *)

\* messages an Error thrown by fn may carry
Messages ==
    { RateLimitExceeded,
      TokenExpired,
      <<"Invalid", "credentials">>,
      <<"Request", "failed:", "Rate", "limit", "exceeded", "(429)">>,
      <<"Rate", "limit">>,
      <<>> }

\* values of the argument retryableErrors
RetryableLists ==
    { <<>>,
      DefaultRetryableErrors,
      <<RateLimitExceeded>>,
      << <<"limit">> >>,
      << <<>> >> }

\* what invocation number n of fn may reject with
ThrownValues(n) ==
    { ErrorValue(m, n) : m \in Messages }
        \cup { StringValue(n), NullValue(n), UndefinedValue(n), ObjectValue(n) }

RECURSIVE Pow(_, _)
\* Math.pow for a non-negative integer exponent
Pow(b, e) == IF e = 0 THEN 1 ELSE b * Pow(b, e - 1)

\* number of fn invocations recorded in a trace
RECURSIVE NumCalls(_)
NumCalls(t) ==
    IF t = <<>> THEN 0
    ELSE (IF t[Len(t)].ev = "call" THEN 1 ELSE 0) + NumCalls(SubSeq(t, 1, Len(t) - 1))

\* the backoff delays recorded in a trace, in order
RECURSIVE Waits(_)
Waits(t) ==
    IF t = <<>> THEN <<>>
    ELSE IF t[Len(t)].ev = "wait"
         THEN Append(Waits(SubSeq(t, 1, Len(t) - 1)), t[Len(t)].ms)
         ELSE Waits(SubSeq(t, 1, Len(t) - 1))

RECURSIVE Sum(_)
Sum(s) == IF s = <<>> THEN 0 ELSE s[1] + Sum(Tail(s))

Event(e, n) == [ev |-> e, ms |-> n]

LoopConditionStrict(a, r) == a < r
\* line 81: attempt <= retries
LoopCondition(a, r) == a <= r

ShouldRetryAlways(e, list) == TRUE
\* lines 87-89: retryableErrors.some(errMsg => lastError.message.includes(errMsg))
ShouldRetry(e, list) ==
    \E i \in 1..Len(list) : Includes(e.message, list[i])

\* reading `message` of any thrown value succeeds
CheckNeverThrows(e, list) == FALSE
\* lines 87-89: the callback dereferences lastError.message; it runs only
\* when the list has an element, and throws for a value without a message
CheckThrowsTypeError(e, list) == Len(list) > 0 /\ ~HasMessage(e)

ExhaustedOffByOne(a, r) == a = r + 1
\* line 91: attempt === retries
Exhausted(a, r) == a = r

BackoffMsLinear(a) == (a + 1) * 100
\* line 96: Math.pow(2, attempt) * 100
BackoffMs(a) == Pow(2, a) * 100

RetryIdle ==
    /\ retries = 0
    /\ retryableErrors = <<>>
    /\ pc = "idle"
    /\ attempt = 0
    /\ lastError = Undefined
    /\ outcome = Undefined
    /\ trace = <<>>
    /\ fnOutcomes = <<>>

ApiIdle ==
    /\ method = "none"
    /\ options = <<>>
    /\ response = <<>>
    /\ clock = 0
    /\ startTime = 0
    /\ elapsed = 0
    /\ phases = <<>>
    /\ apc = "idle"
    /\ fnResult = <<>>
    /\ apiResult = <<>>

TimeIdle ==
    /\ apiEnv = "none"
    /\ apiConfig = <<>>
    /\ tMaxTime = <<>>
    /\ tpc = "idle"
    /\ tClock = 0
    /\ tStart = 0
    /\ tElapsed = 0
    /\ tCalls = 0
    /\ tFnOutcome = <<>>
    /\ tResult = <<>>

SchemaIdle ==
    /\ sName = "none"
    /\ sData = <<>>
    /\ sSchema = <<>>
    /\ spc = "idle"
    /\ sResult = <<>>

LoginIdle ==
    /\ lConfig = <<>>
    /\ lOptions = <<>>
    /\ lpc = "idle"
    /\ lAttempt = 0
    /\ lClock = 0
    /\ lLastError = <<>>
    /\ lPosts = <<>>
    /\ lMeasures = <<>>
    /\ lWaits = <<>>
    /\ lResult = <<>>

\* lines 74-81: entry of retryOnError; lastError is declared, not assigned
FillIdle ==
    /\ fField = 0
    /\ fCand = 0
    /\ fpc = "idle"
    /\ fProbes = <<>>
    /\ fFilled = <<>>
    /\ fReturns = <<>>

SearchIdle ==
    /\ qpc = "idle"
    /\ qRoutes = {}
    /\ qAttempt = 0
    /\ qSearchSuccess = FALSE
    /\ qNames = <<>>
    /\ qApi = <<>>
    /\ qVerdict = "none"

ConcIdle ==
    /\ cRetries = <<>>
    /\ cpc = <<>>
    /\ cAttempt = <<>>
    /\ cLastError = <<>>
    /\ cCalls = <<>>
    /\ cThrown = <<>>
    /\ cOutcome = <<>>
    /\ cOrder = <<>>

CfgIdle ==
    /\ gEnv = <<>>
    /\ gConfig = <<>>
    /\ gUse = <<>>
    /\ gpc = "idle"
    /\ gResult = <<>>

ClickIdle ==
    /\ kMethod = "none"
    /\ kIdx = 0
    /\ kpc = "idle"
    /\ kClicked = FALSE
    /\ kClicks = <<>>
    /\ kFallback = FALSE

CartIdle ==
    /\ bCart = <<>>
    /\ bCart0 = <<>>
    /\ bLayout = "none"
    /\ bCall = [impl |-> "none", method |-> "none", productName |-> <<>>, quantity |-> 0]
    /\ bpc = "idle"
    /\ bDone = FALSE
    /\ bTouched = <<>>

RetryInit ==
    /\ retries \in -1..MaxRetries
    /\ retryableErrors \in RetryableLists
    /\ pc = "loop"
    /\ attempt = 0
    /\ lastError = Undefined
    /\ outcome = Undefined
    /\ trace = <<>>
    /\ fnOutcomes = <<>>

\* lines 81-83: loop condition holds, fn is invoked and awaited
CallFn ==
    /\ pc = "loop"
    /\ LoopCondition(attempt, retries)
    /\ pc' = "awaiting"
    /\ trace' = Append(trace, Event("call", 0))
    /\ UNCHANGED <<retries, retryableErrors, attempt, lastError, outcome, fnOutcomes>>
    /\ UNCHANGED nonRetryVars

\* lines 81, 100: loop condition fails, throw lastError
LoopExit ==
    /\ pc = "loop"
    /\ ~LoopCondition(attempt, retries)
    /\ pc' = "rejected"
    /\ outcome' = lastError
    /\ UNCHANGED <<retries, retryableErrors, attempt, lastError, trace, fnOutcomes>>
    /\ UNCHANGED nonRetryVars

\* line 83: fn resolved, return its value
FnResolves ==
    /\ pc = "awaiting"
    /\ pc' = "resolved"
    /\ outcome' = ResultValue(NumCalls(trace))
    /\ fnOutcomes' = Append(fnOutcomes, ResultValue(NumCalls(trace)))
    /\ UNCHANGED <<retries, retryableErrors, attempt, lastError, trace>>
    /\ UNCHANGED nonRetryVars

\* lines 84-96: fn rejected with e
FnRejects ==
    /\ pc = "awaiting"
    /\ \E e \in ThrownValues(NumCalls(trace)) :
        /\ fnOutcomes' = Append(fnOutcomes, e)
        /\ lastError' = e
        /\ IF CheckThrowsTypeError(e, retryableErrors)
           THEN /\ pc' = "rejected"
                /\ outcome' = TypeErrorValue(NumCalls(trace))
                /\ trace' = trace
           ELSE IF ~ShouldRetry(e, retryableErrors) \/ Exhausted(attempt, retries)
           THEN /\ pc' = "rejected"
                /\ outcome' = e
                /\ trace' = trace
           ELSE /\ pc' = "waiting"
                /\ outcome' = outcome
                /\ trace' = Append(trace, Event("wait", BackoffMs(attempt)))
    /\ UNCHANGED <<retries, retryableErrors, attempt>>
    /\ UNCHANGED nonRetryVars

\* lines 96, 81: the setTimeout promise resolves, attempt++
TimerFires ==
    /\ pc = "waiting"
    /\ pc' = "loop"
    /\ attempt' = attempt + 1
    /\ trace' = Append(trace, Event("fired", 0))
    /\ UNCHANGED <<retries, retryableErrors, lastError, outcome, fnOutcomes>>
    /\ UNCHANGED nonRetryVars

Init == RetryInit /\ ApiIdle /\ TimeIdle /\ LoginIdle /\ SchemaIdle /\ FillIdle /\ SearchIdle /\ ConcIdle
        /\ CfgIdle
        /\ ClickIdle
        /\ CartIdle

Next ==
    \/ CallFn
    \/ LoopExit
    \/ FnResolves
    \/ FnRejects
    \/ TimerFires

Spec == Init /\ [][Next]_vars

Settled == pc \in {"resolved", "rejected"}

----------------------------------------------------------------------------
(* JSON text of a response body: APIResponse.json() / JSON.stringify *)

Q == "\""
WS == " "

\* number literals that may occur in a body
NumberLiterals == {"1", "123"}

JNull == [type |-> "null", str |-> <<>>, fields |-> <<>>]
JStr(w) == [type |-> "string", str |-> w, fields |-> <<>>]
JNum(tok) == [type |-> "number", str |-> <<tok>>, fields |-> <<>>]
JBool(tok) == [type |-> "boolean", str |-> <<tok>>, fields |-> <<>>]
JObj(members) == [type |-> "object", str |-> <<>>, fields |-> members]
\* an array holds its elements as members with an empty key
JArr(elems) ==
    [type |-> "array", str |-> <<>>,
     fields |-> [i \in DOMAIN elems |-> [key |-> <<>>, val |-> elems[i]]]]
Member(k, v) == [key |-> k, val |-> v]

ParseFail == [ok |-> FALSE, val |-> JNull, next |-> 0]
ParseOk(v, n) == [ok |-> TRUE, val |-> v, next |-> n]

RECURSIVE StripWs(_, _)
\* JSON.parse skips whitespace between tokens, never inside a string
StripWs(t, inString) ==
    IF t = <<>> THEN <<>>
    ELSE IF t[1] = Q THEN <<Q>> \o StripWs(Tail(t), ~inString)
    ELSE IF t[1] = WS /\ ~inString THEN StripWs(Tail(t), inString)
    ELSE <<t[1]>> \o StripWs(Tail(t), inString)

\* a string literal starting at s[i]
ParseString(s, i) ==
    IF i > Len(s) \/ s[i] # Q THEN ParseFail
    ELSE LET closing == { j \in (i + 1)..Len(s) : s[j] = Q } IN
         IF closing = {} THEN ParseFail
         ELSE LET j == CHOOSE k \in closing : \A m \in closing : k <= m IN
              ParseOk(JStr(SubSeq(s, i + 1, j - 1)), j + 1)

\* a scalar value starting at s[i]
ParseScalar(s, i) ==
    IF i > Len(s) THEN ParseFail
    ELSE IF s[i] = "null" THEN ParseOk(JNull, i + 1)
    ELSE IF s[i] \in NumberLiterals THEN ParseOk(JNum(s[i]), i + 1)
    ELSE ParseString(s, i)

RECURSIVE ParseMembers(_, _, _)
\* the members of an object, s[i] being the first token of a key
ParseMembers(s, i, acc) ==
    LET k == ParseString(s, i) IN
    IF ~k.ok \/ k.next > Len(s) \/ s[k.next] # ":" THEN ParseFail
    ELSE LET v == ParseScalar(s, k.next + 1) IN
         IF ~v.ok \/ v.next > Len(s) THEN ParseFail
         ELSE LET members == Append(acc, Member(k.val.str, v.val)) IN
              IF s[v.next] = "}" THEN ParseOk(JObj(members), v.next + 1)
              ELSE IF s[v.next] = "," THEN ParseMembers(s, v.next + 1, members)
              ELSE ParseFail

\* APIResponse.json(): JSON.parse of the body text
JsonParse(text) ==
    LET s == StripWs(text, FALSE)
        r == IF s = <<>> THEN ParseFail
             ELSE IF s[1] = "{"
                  THEN IF Len(s) >= 2 /\ s[2] = "}" THEN ParseOk(JObj(<<>>), 3)
                       ELSE ParseMembers(s, 2, <<>>)
                  ELSE ParseScalar(s, 1)
    IN IF r.ok /\ r.next = Len(s) + 1 THEN r ELSE ParseFail

ScalarText(v) ==
    IF v.type = "null" THEN <<"null">>
    ELSE IF v.type \in {"number", "boolean"} THEN v.str
    ELSE <<Q>> \o v.str \o <<Q>>

RECURSIVE MembersText(_)
MembersText(ms) ==
    IF ms = <<>> THEN <<>>
    ELSE <<Q>> \o ms[1].key \o <<Q, ":">> \o ScalarText(ms[1].val)
         \o (IF Len(ms) > 1 THEN <<",">> ELSE <<>>) \o MembersText(Tail(ms))

\* JSON.stringify(value): compact, no whitespace
JsonStringify(v) ==
    IF v.type = "object" THEN <<"{">> \o MembersText(v.fields) \o <<"}">>
    ELSE ScalarText(v)

\* body texts a server may answer with
BodyUserNotFound == <<"{", Q, "error", Q, ":", Q, "User", "not", "found", Q, "}">>
BodyUserNotFoundSpaced ==
    <<"{", WS, Q, "error", Q, ":", WS, Q, "User", "not", "found", Q, WS, "}">>
BodyToken == <<"{", Q, "token", Q, ":", Q, "abc", Q, "}">>
BodyTokenNumber == <<"{", Q, "token", Q, ":", "123", "}">>
BodyNoToken == <<"{", Q, "id", Q, ":", "1", ",", Q, "name", Q, ":", "null", "}">>
BodyNull == <<"null">>
BodyEmpty == <<>>
BodyPlainText == <<"Not", "Found">>
BodyTruncated == <<"{", Q, "error", Q, ":">>

\* src/fixtures/checkoutFixture.ts:161-170 rateLimitError.data
BodyRateLimit ==
    <<"{", Q, "error", Q, ":", Q, "Too", "many", "requests", Q, ",",
      Q, "message", Q, ":", Q, "Rate", "limit", "exceeded", Q, "}">>
\* src/fixtures/checkoutFixture.ts:115-121 userErrors.invalidAuthentication.data
BodyInvalidCredentials ==
    <<"{", Q, "error", Q, ":", Q, "Invalid", "credentials", Q, ",",
      Q, "message", Q, ":", Q, "Email", "or", "password", "is", "incorrect", Q, "}">>

Bodies ==
    { BodyUserNotFound, BodyUserNotFoundSpaced, BodyToken, BodyTokenNumber,
      BodyNoToken, BodyNull, BodyEmpty, BodyPlainText, BodyTruncated }

----------------------------------------------------------------------------
(* validateSchema: src/utils/apiTestUtils.ts:23-33, schemas of part_011 *)

\* A schema with every keyword absent; `types` keeps the order of the source
AnySchema ==
    [types |-> <<>>, nullable |-> FALSE, required |-> <<>>, properties |-> <<>>,
     items |-> <<>>, additional |-> TRUE, format |-> "none"]

\* options.schema left undefined
NoSchema == AnySchema

OfType(ts) == [AnySchema EXCEPT !.types = ts]
Nullable(sc) == [sc EXCEPT !.nullable = TRUE]
WithFormat(sc, f) == [sc EXCEPT !.format = f]
Prop(k, sc) == [key |-> <<k>>, schema |-> sc]
ObjectSchema(req, props) ==
    [AnySchema EXCEPT !.types = <<"object">>, !.required = req, !.properties = props]
ArraySchema(sc) == [AnySchema EXCEPT !.types = <<"array">>, !.items = <<sc>>]

\* part_011:40-46
AuthResponseSchema ==
    ObjectSchema(<< <<"token">> >>, << Prop("token", OfType(<<"string">>)) >>)

Str == OfType(<<"string">>)
Num == OfType(<<"number">>)
Keys(ks) == [i \in DOMAIN ks |-> <<ks[i]>>]

\* part_011:8-19
UserSchema ==
    [ObjectSchema(Keys(<<"id", "first_name", "last_name", "email">>),
        << Prop("id", Num),
           Prop("first_name", Str),
           Prop("last_name", Str),
           Prop("email", WithFormat(Str, "email")),
           Prop("avatar", Nullable(Str)) >>)
     EXCEPT !.additional = FALSE]

\* part_011:22-25
UsersListSchema == ArraySchema(UserSchema)

\* part_011:28-37
UserCreationSchema ==
    ObjectSchema(Keys(<<"name", "job", "id", "createdAt">>),
        << Prop("name", Str),
           Prop("job", Str),
           Prop("id", OfType(<<"string", "number">>)),
           Prop("createdAt", WithFormat(Str, "date-time")) >>)

\* part_011:60-77: the shape shared by `category` and `brand`
NamedRefSchema ==
    Nullable(ObjectSchema(<<>>,
        << Prop("id", Num), Prop("name", Str), Prop("slug", Str) >>))

\* the product schema with `price` left out of `required`
ProductSchemaPriceOptional ==
    ObjectSchema(Keys(<<"id", "name", "description", "category_id">>),
        << Prop("id", Num),
           Prop("name", Str),
           Prop("description", Str),
           Prop("price", OfType(<<"string", "number">>)),
           Prop("category_id", OfType(<<"number", "string">>)),
           Prop("brand_id", Nullable(OfType(<<"number", "string">>))),
           Prop("image", Nullable(Str)),
           Prop("category", NamedRefSchema),
           Prop("brand", NamedRefSchema) >>)

\* part_011:49-79
ProductSchema ==
    ObjectSchema(Keys(<<"id", "name", "description", "price", "category_id">>),
        << Prop("id", Num),
           Prop("name", Str),
           Prop("description", Str),
           Prop("price", OfType(<<"string", "number">>)),
           Prop("category_id", OfType(<<"number", "string">>)),
           Prop("brand_id", Nullable(OfType(<<"number", "string">>))),
           Prop("image", Nullable(Str)),
           Prop("category", NamedRefSchema),
           Prop("brand", NamedRefSchema) >>)

\* part_011:94-103 and 161-170
PaginationSchema ==
    ObjectSchema(Keys(<<"total", "count", "per_page", "current_page", "total_pages">>),
        << Prop("total", Num),
           Prop("count", Num),
           Prop("per_page", Num),
           Prop("current_page", Num),
           Prop("total_pages", Num) >>)

\* part_011:82-108 and 149-175: a page of `items` with its pagination
PagedListSchema(items) ==
    ObjectSchema(Keys(<<"data", "meta">>),
        << Prop("data", ArraySchema(items)),
           Prop("meta", ObjectSchema(Keys(<<"pagination">>),
                            << Prop("pagination", PaginationSchema) >>)) >>)

\* part_011:82-108
ProductsListSchema == PagedListSchema(ProductSchema)

\* the order item schema with `price` admitting numbers only
OrderItemSchemaPriceNumber ==
    ObjectSchema(Keys(<<"product_id", "quantity", "price">>),
        << Prop("id", Num),
           Prop("order_id", Num),
           Prop("product_id", Num),
           Prop("quantity", Num),
           Prop("price", Num),
           Prop("product", Nullable(OfType(<<"object">>))) >>)

\* part_011:111-122
OrderItemSchema ==
    ObjectSchema(Keys(<<"product_id", "quantity", "price">>),
        << Prop("id", Num),
           Prop("order_id", Num),
           Prop("product_id", Num),
           Prop("quantity", Num),
           Prop("price", OfType(<<"string", "number">>)),
           Prop("product", Nullable(OfType(<<"object">>))) >>)

\* part_011:125-146
OrderSchema ==
    ObjectSchema(Keys(<<"id", "user_id", "order_status_id", "created_at">>),
        << Prop("id", Num),
           Prop("user_id", Num),
           Prop("order_status_id", Num),
           Prop("shipping_address", Str),
           Prop("shipping_city", Str),
           Prop("shipping_state", Str),
           Prop("shipping_zip", Str),
           Prop("shipping_country", Str),
           Prop("payment_type", Str),
           Prop("created_at", Str),
           Prop("updated_at", Str),
           Prop("items", Nullable(ArraySchema(OrderItemSchema))) >>)

\* part_011:149-175
OrdersListSchema == PagedListSchema(OrderSchema)

HasKey(v, k) == \E i \in DOMAIN v.fields : v.fields[i].key = k
ValueOf(v, k) == v.fields[CHOOSE i \in DOMAIN v.fields : v.fields[i].key = k].val

\* keyword `type`, with `nullable: true` admitting null
TypeAllowed(v, sc) ==
    \/ sc.types = <<>>
    \/ \E i \in DOMAIN sc.types : sc.types[i] = v.type
    \/ sc.nullable /\ v.type = "null"

RECURSIVE CommaList(_)
CommaList(ts) ==
    IF ts = <<>> THEN <<>>
    ELSE <<ts[1]>> \o (IF Len(ts) > 1 THEN <<",">> ELSE <<>>) \o CommaList(Tail(ts))

TypeViolation(sc, path) ==
    path \o <<"must", "be">>
        \o CommaList(sc.types \o (IF sc.nullable THEN <<"null">> ELSE <<>>))

RECURSIVE RequiredViolations(_, _, _)
\* keyword `required`: one violation per missing property
RequiredViolations(v, req, path) ==
    IF req = <<>> THEN <<>>
    ELSE (IF HasKey(v, req[1])
          THEN <<>>
          ELSE << path \o <<"must", "have", "required", "property", "'">>
                  \o req[1] \o <<"'">> >>)
         \o RequiredViolations(v, Tail(req), path)

RECURSIVE AdditionalViolations(_, _, _)
\* keyword `additionalProperties: false`: one violation per undeclared member
AdditionalViolations(ms, sc, path) ==
    IF ms = <<>> \/ sc.additional THEN <<>>
    ELSE (IF \E i \in DOMAIN sc.properties : sc.properties[i].key = ms[1].key
          THEN <<>>
          ELSE << path \o <<"must", "NOT", "have", "additional", "properties">> >>)
         \o AdditionalViolations(Tail(ms), sc, path)

\* formats `email` and `date-time` of ajv-formats, on the token form of strings
FormatOk(w, f) ==
    IF f = "email"
    THEN Len(w) = 3 /\ w[2] = "@" /\ w[1] # "@" /\ w[3] # "@"
    ELSE IF f = "date-time"
    THEN Len(w) = 4 /\ w[2] = "T" /\ w[4] = "Z"
    ELSE TRUE

FormatViolation(sc, path) ==
    path \o <<"must", "match", "format", Q, sc.format, Q>>

RECURSIVE Violations(_, _, _)
RECURSIVE PropertyViolations(_, _, _)
RECURSIVE ItemViolations(_, _, _, _)

\* keyword `properties`: the violations of each present declared property
PropertyViolations(v, props, path) ==
    IF props = <<>> THEN <<>>
    ELSE (IF HasKey(v, props[1].key)
          THEN Violations(ValueOf(v, props[1].key), props[1].schema,
                          path \o <<"/">> \o props[1].key)
          ELSE <<>>)
         \o PropertyViolations(v, Tail(props), path)

\* keyword `items`: the violations of each element, by index
ItemViolations(ms, sc, path, i) ==
    IF ms = <<>> THEN <<>>
    ELSE Violations(ms[1].val, sc, path \o <<"/", ToString(i)>>)
         \o ItemViolations(Tail(ms), sc, path, i + 1)

\* the errors one (sub)schema collects on one value under allErrors: a value
\* of a wrong type gives the type error alone, the other keywords apply to
\* values of their own type only
Violations(v, sc, path) ==
    IF ~TypeAllowed(v, sc) THEN << TypeViolation(sc, path) >>
    ELSE IF v.type = "object"
    THEN RequiredViolations(v, sc.required, path)
         \o AdditionalViolations(v.fields, sc, path)
         \o PropertyViolations(v, sc.properties, path)
    ELSE IF v.type = "array" /\ sc.items # <<>>
    THEN ItemViolations(v.fields, sc.items[1], path, 0)
    ELSE IF v.type = "string" /\ ~FormatOk(v.str, sc.format)
    THEN << FormatViolation(sc, path) >>
    ELSE <<>>

\* the same with allErrors off: validation stops at the first error
SchemaViolationsFirstOnly(v, schema) ==
    LET all == Violations(v, schema, <<"data">>)
    IN  IF all = <<>> THEN <<>> ELSE << all[1] >>

\* ajv.compile(schema)(data) with allErrors: the list of validate.errors
SchemaViolations(v, schema) == Violations(v, schema, <<"data">>)

RECURSIVE JoinLines(_)
\* ajv.errorsText(errors, { separator: '\n' })
JoinLines(errs) ==
    IF errs = <<>> THEN <<>>
    ELSE errs[1] \o (IF Len(errs) > 1 THEN <<"\n">> ELSE <<>>) \o JoinLines(Tail(errs))

RECURSIVE Indent(_)
Indent(n) == IF n = 0 THEN <<>> ELSE <<WS>> \o Indent(n - 1)

RECURSIVE PrettyText(_, _)
RECURSIVE MembersTextPretty(_, _, _)

\* the members of an object (keyed) or the elements of an array at depth n
MembersTextPretty(ms, keyed, n) ==
    IF ms = <<>> THEN <<>>
    ELSE <<"\n">> \o Indent(n)
         \o (IF keyed THEN <<Q>> \o ms[1].key \o <<Q, ":", WS>> ELSE <<>>)
         \o PrettyText(ms[1].val, n)
         \o (IF Len(ms) > 1 THEN <<",">> ELSE <<"\n">> \o Indent(n - 2))
         \o MembersTextPretty(Tail(ms), keyed, n)

PrettyText(v, n) ==
    IF v.type = "object"
    THEN <<"{">> \o MembersTextPretty(v.fields, TRUE, n + 2) \o <<"}">>
    ELSE IF v.type = "array"
    THEN <<"[">> \o MembersTextPretty(v.fields, FALSE, n + 2) \o <<"]">>
    ELSE ScalarText(v)

\* JSON.stringify(data, null, 2)
JsonStringifyPretty(v) == PrettyText(v, 0)

\* line 29: message of the Error thrown by validateSchema
SchemaErrorMessage(v, errs) ==
    <<"Schema", "validation", "failed:">> \o JoinLines(errs)
        \o <<"\n", "Data:">> \o JsonStringifyPretty(v)

----------------------------------------------------------------------------
(* ApiPage.get / post / put / delete: src/unnamed/part_007:26-203 *)

\* Date.now() advances in ticks of 50 ms
Delays == { k * 50 : k \in 0..MaxTicks }

Methods == {"get", "post", "put", "delete"}
Statuses == {199, 200, 204, 299, 300, 404, 429}
HeaderSets == {"json-headers"}

\* RequestOptions (part_007:239-244); maxSupplied = FALSE is an undefined
\* maxResponseTime, schema = NoSchema an undefined schema, validateStatus
\* "undefined" an omitted validateStatus
OptionSets ==
    { [validateStatus |-> vs, schema |-> sc, maxSupplied |-> mx[1], maxResponseTime |-> mx[2]] :
        vs \in {"undefined", "true", "false"}, sc \in {NoSchema, AuthResponseSchema},
        mx \in {<<FALSE, 0>>, <<TRUE, 0>>, <<TRUE, 100>>} }

NoResponse == [received |-> FALSE, status |-> 0, body |-> <<>>, headers |-> "none"]

NoError == [kind |-> "none", message |-> <<>>]
ErrorOf(k, msg) == [kind |-> k, message |-> msg]

Pending == [state |-> "pending", data |-> JNull, status |-> 0, headers |-> "none", error |-> NoError]
Rejected(err) == [state |-> "rejected", data |-> JNull, status |-> 0, headers |-> "none", error |-> err]
\* lines 46-50: { data, status, headers }
Resolved(d, resp) ==
    [state |-> "resolved", data |-> d, status |-> resp.status, headers |-> resp.headers,
     error |-> NoError]

\* the timing assertion wraps every request that supplies maxResponseTime
TimedWhenSupplied(opts) == opts.maxSupplied
\* lines 53-55: `maxResponseTime ? assertResponseTime(...) : requestFn()`;
\* undefined and 0 are both falsy
Timed(opts) == opts.maxSupplied /\ opts.maxResponseTime # 0

\* line 27: `validateStatus = true` in the destructuring, then `if (validateStatus)`
ValidateStatus(opts) == opts.validateStatus # "false"

\* `if (schema)`
SchemaSupplied(opts) == opts.schema # NoSchema

StatusOkInclusive(st) == st >= 200 /\ st <= 300
\* line 190: !(statusCode < 200 || statusCode >= 300)
StatusOk(st) == ~(st < 200 \/ st >= 300)

\* lines 193-199: errorMessage
StatusErrorMessage(resp) ==
    LET p == JsonParse(resp.body) IN
    <<"API", "Error", "(", ToString(resp.status), "):">>
        \o (IF p.ok THEN JsonStringify(p.val)
            ELSE IF resp.body = <<>> THEN <<"No", "response", "body">>
            ELSE resp.body)

\* the body is parsed and returned, a supplied schema is not consulted
JsonBodyOutcomeSkipsSchema(opts, resp) ==
    LET p == JsonParse(resp.body) IN
    IF ~p.ok THEN Rejected(ErrorOf("parse", <<"Unexpected", "token">>))
    ELSE Resolved(p.val, resp)

\* lines 40-50, 80-90, 120-130: the rest of requestFn of get / post / put
JsonBodyOutcome(opts, resp) ==
    LET p == JsonParse(resp.body) IN
    IF ~p.ok THEN Rejected(ErrorOf("parse", <<"Unexpected", "token">>))
    ELSE IF SchemaSupplied(opts) /\ SchemaViolations(p.val, opts.schema) # <<>>
         THEN Rejected(ErrorOf("schema",
                  SchemaErrorMessage(p.val, SchemaViolations(p.val, opts.schema))))
         ELSE Resolved(p.val, resp)

DeleteBodyOutcomeNoCatch(opts, resp) == JsonBodyOutcome(opts, resp)
\* lines 158-174: the rest of requestFn of delete; the catch swallows both
\* the parse error and the schema error, responseData keeps what was assigned
DeleteBodyOutcome(opts, resp) ==
    LET p == JsonParse(resp.body) IN
    IF ~p.ok THEN Resolved(JNull, resp)
    ELSE Resolved(p.val, resp)

TimingErrorMessageBare(e, maxTime) == <<"API", "response", "took", "too", "long">>
\* apiTestUtils.ts:50: expect(elapsed, `API response took too long: ...`)
\* .toBeLessThanOrEqual(maxTime)
TimingErrorMessage(e, maxTime) ==
    <<"API", "response", "took", "too", "long:", ToString(e), "ms",
      "Expected:", "<=", ToString(maxTime), "Received:", ToString(e)>>

Phase(name, dt) == [phase |-> name, ms |-> dt]

RECURSIVE TotalMs(_)
TotalMs(ph) == IF ph = <<>> THEN 0 ELSE ph[1].ms + TotalMs(Tail(ph))

ApiInit ==
    /\ method \in Methods
    /\ options \in OptionSets
    /\ response = NoResponse
    /\ clock \in {0, 1000}
    /\ startTime = 0
    /\ elapsed = 0
    /\ phases = <<>>
    /\ apc = "start"
    /\ fnResult = Pending
    /\ apiResult = Pending

\* lines 27-30, 53-55 and apiTestUtils.ts:46-47: read startTime when the
\* call is timed, invoke requestFn, which issues the HTTP call
SendRequest ==
    /\ apc = "start"
    /\ startTime' = IF Timed(options) THEN clock ELSE startTime
    /\ apc' = "inflight"
    /\ UNCHANGED <<method, options, response, clock, elapsed, phases, fnResult, apiResult>>
    /\ UNCHANGED nonApiVars

\* line 30: the HTTP call resolves with an APIResponse; line 36
HttpResponds ==
    /\ apc = "inflight"
    /\ \E st \in Statuses, b \in Bodies, h \in HeaderSets, dt \in Delays :
        /\ response' = [received |-> TRUE, status |-> st, body |-> b, headers |-> h]
        /\ clock' = clock + dt
        /\ phases' = Append(phases, Phase("http", dt))
    /\ apc' = IF ValidateStatus(options) THEN "validating" ELSE "parsing"
    /\ UNCHANGED <<method, options, startTime, elapsed, fnResult, apiResult>>
    /\ UNCHANGED nonApiVars

\* line 30: the HTTP call rejects (connection error, timeoutMs); the
\* rejection passes through requestFn and assertResponseTime unchanged
HttpFails ==
    /\ apc = "inflight"
    /\ \E dt \in Delays :
        /\ clock' = clock + dt
        /\ phases' = Append(phases, Phase("http", dt))
    /\ apiResult' = Rejected(ErrorOf("network", <<"Request", "failed">>))
    /\ apc' = "done"
    /\ UNCHANGED <<method, options, response, startTime, elapsed, fnResult>>
    /\ UNCHANGED nonApiVars

\* lines 36-38, 187-203: validateResponse
ValidateResponse ==
    /\ apc = "validating"
    /\ \E dt \in Delays :
        /\ clock' = clock + dt
        /\ phases' = Append(phases, Phase("status", dt))
    /\ IF StatusOk(response.status)
       THEN /\ apc' = "parsing"
            /\ apiResult' = apiResult
       ELSE /\ apc' = "done"
            /\ apiResult' = Rejected(ErrorOf("status", StatusErrorMessage(response)))
    /\ UNCHANGED <<method, options, response, startTime, elapsed, fnResult>>
    /\ UNCHANGED nonApiVars

\* requestFn settles with r after reading the body: a rejection skips the
\* timing assertion, a result is handed to it when the call is timed
FinishRequestFn(r) ==
    LET runsSchema == SchemaSupplied(options) /\ JsonParse(response.body).ok
    IN /\ \E dp \in Delays, ds \in (IF runsSchema THEN Delays ELSE {0}) :
           /\ clock' = clock + dp + ds
           /\ phases' = phases \o <<Phase("parse", dp)>>
                            \o (IF runsSchema THEN <<Phase("schema", ds)>> ELSE <<>>)
       /\ IF r.state = "rejected"
          THEN /\ apiResult' = r
               /\ fnResult' = fnResult
               /\ apc' = "done"
          ELSE IF Timed(options)
          THEN /\ fnResult' = r
               /\ apiResult' = apiResult
               /\ apc' = "measuring"
          ELSE /\ fnResult' = r
               /\ apiResult' = r
               /\ apc' = "done"

\* part_007:40-50, 80-90, 120-130: get / post / put parse the body,
\* validate it against the schema and build the result
ReadBodyJson ==
    /\ apc = "parsing"
    /\ method \in {"get", "post", "put"}
    /\ FinishRequestFn(JsonBodyOutcome(options, response))
    /\ UNCHANGED <<method, options, response, startTime, elapsed>>
    /\ UNCHANGED nonApiVars

\* part_007:158-174: delete does the same inside a try / catch
ReadBodyDelete ==
    /\ apc = "parsing"
    /\ method = "delete"
    /\ FinishRequestFn(DeleteBodyOutcome(options, response))
    /\ UNCHANGED <<method, options, response, startTime, elapsed>>
    /\ UNCHANGED nonApiVars

\* apiTestUtils.ts:48-52: elapsed, the expect, return result
AssertTime ==
    /\ apc = "measuring"
    /\ elapsed' = clock - startTime
    /\ apiResult' = IF elapsed' <= options.maxResponseTime
                    THEN fnResult
                    ELSE Rejected(ErrorOf("timing",
                             TimingErrorMessage(elapsed', options.maxResponseTime)))
    /\ apc' = "done"
    /\ UNCHANGED <<method, options, response, clock, startTime, phases, fnResult>>
    /\ UNCHANGED nonApiVars

ApiNext ==
    \/ SendRequest
    \/ HttpResponds
    \/ HttpFails
    \/ ValidateResponse
    \/ ReadBodyJson
    \/ ReadBodyDelete
    \/ AssertTime

ApiSpecInit == ApiInit /\ RetryIdle /\ TimeIdle /\ LoginIdle /\ SchemaIdle /\ FillIdle /\ SearchIdle /\ ConcIdle
        /\ CfgIdle
        /\ ClickIdle
        /\ CartIdle

ApiSpec == ApiSpecInit /\ [][ApiNext]_vars

----------------------------------------------------------------------------
(* apiConfig: src/unnamed/part_012:7-48 *)

\* process.env.API_ENV: unset, or set to a string
EnvUnset == [set |-> FALSE, value |-> ""]
EnvSet(v) == [set |-> TRUE, value |-> v]

EnvValues == {EnvUnset} \cup { EnvSet(v) : v \in {"", "local", "dev", "staging", "production"} }

\* lines 20-45: the environments table
Environments ==
    [local |-> [baseUrl |-> "http://localhost:3000/api", timeoutMs |-> 5000,
                maxResponseTimeMs |-> 1000, authRetryAttempts |-> 1],
     dev |-> [baseUrl |-> "https://dev-api.example.com", timeoutMs |-> 10000,
              maxResponseTimeMs |-> 2000, authRetryAttempts |-> 2],
     staging |-> [baseUrl |-> "https://staging-api.example.com", timeoutMs |-> 10000,
                  maxResponseTimeMs |-> 2000, authRetryAttempts |-> 2],
     production |-> [baseUrl |-> "https://api.example.com", timeoutMs |-> 15000,
                     maxResponseTimeMs |-> 3000, authRetryAttempts |-> 3]]

CurrentEnvDefaultLocal(env) == IF ~env.set \/ env.value = "" THEN "local" ELSE env.value
\* line 10: process.env.API_ENV || 'dev'
CurrentEnv(env) == IF ~env.set \/ env.value = "" THEN "dev" ELSE env.value

\* line 48: environments[currentEnv]
ApiConfigOf(env) == Environments[CurrentEnv(env)]

----------------------------------------------------------------------------
(* assertResponseTime: src/utils/apiTestUtils.ts:42-53 *)

\* the argument maxTime: omitted, or a number
MaxTimeOmitted == [supplied |-> FALSE, value |-> 0]
MaxTimeOf(n) == [supplied |-> TRUE, value |-> n]
MaxTimeArgs == {MaxTimeOmitted} \cup { MaxTimeOf(n) : n \in {0, 100} }

\* how long fn may take, in ms
Durations == {0, 50, 100, 150, 1000, 1050, 2000, 2050, 3000, 3050}

\* what fn may resolve with
FnValues == {"result-a", "result-b"}

\* line 44: maxTime = apiConfig.maxResponseTimeMs
EffectiveMaxTime(arg, config) ==
    IF arg.supplied THEN arg.value ELSE config.maxResponseTimeMs

WithinLimitStrict(e, maxTime) == e < maxTime
\* line 50: toBeLessThanOrEqual(maxTime)
WithinLimit(e, maxTime) == e <= maxTime

TimePending == [state |-> "pending", value |-> "none", error |-> NoError]
TimeResolved(v) == [state |-> "resolved", value |-> v, error |-> NoError]
TimeRejected(err) == [state |-> "rejected", value |-> "none", error |-> err]

FnSettled(st, v, dt) == [state |-> st, value |-> v, duration |-> dt]

\* part_012:10, 48 run when the module is loaded; then the call is made
TimeInit ==
    /\ apiEnv \in EnvValues
    /\ apiConfig = ApiConfigOf(apiEnv)
    /\ tMaxTime \in MaxTimeArgs
    /\ tpc = "start"
    /\ tClock \in {0, 1000}
    /\ tStart = 0
    /\ tElapsed = 0
    /\ tCalls = 0
    /\ tFnOutcome = FnSettled("pending", "none", 0)
    /\ tResult = TimePending

\* lines 44-47: startTime = Date.now(); fn() is invoked and awaited
AssertStart ==
    /\ tpc = "start"
    /\ tStart' = tClock
    /\ tCalls' = tCalls + 1
    /\ tpc' = "awaiting"
    /\ UNCHANGED <<apiEnv, apiConfig, tMaxTime, tClock, tElapsed, tFnOutcome, tResult>>
    /\ UNCHANGED nonTimeVars

\* lines 47-52: fn resolved; elapsed, the expect, return result
AssertFnResolves ==
    /\ tpc = "awaiting"
    /\ \E dt \in Durations, v \in FnValues :
        /\ tClock' = tClock + dt
        /\ tElapsed' = tClock' - tStart
        /\ tFnOutcome' = FnSettled("resolved", v, dt)
        /\ LET maxTime == EffectiveMaxTime(tMaxTime, apiConfig) IN
           tResult' = IF WithinLimit(tElapsed', maxTime)
                      THEN TimeResolved(v)
                      ELSE TimeRejected(ErrorOf("timing",
                               TimingErrorMessage(tElapsed', maxTime)))
    /\ tpc' = "done"
    /\ UNCHANGED <<apiEnv, apiConfig, tMaxTime, tStart, tCalls>>
    /\ UNCHANGED nonTimeVars

\* line 47: fn rejected; the rejection leaves assertResponseTime as it is
AssertFnRejects ==
    /\ tpc = "awaiting"
    /\ \E dt \in Durations :
        /\ tClock' = tClock + dt
        /\ tFnOutcome' = FnSettled("rejected", "none", dt)
    /\ tResult' = TimeRejected(ErrorOf("fn", <<"Request", "failed">>))
    /\ tpc' = "done"
    /\ UNCHANGED <<apiEnv, apiConfig, tMaxTime, tStart, tElapsed, tCalls>>
    /\ UNCHANGED nonTimeVars

TimeNext ==
    \/ AssertStart
    \/ AssertFnResolves
    \/ AssertFnRejects

TimeSpecInit == TimeInit /\ RetryIdle /\ ApiIdle /\ LoginIdle /\ SchemaIdle /\ FillIdle /\ SearchIdle /\ ConcIdle
        /\ CfgIdle
        /\ ClickIdle
        /\ CartIdle

TimeSpec == TimeSpecInit /\ [][TimeNext]_vars

----------------------------------------------------------------------------
(* Properties of apiConfig and assertResponseTime *)

\* the response-time budget of each profile, as the table states it
BudgetOfEnv ==
    IF apiEnv = EnvSet("local") THEN 1000
    ELSE IF apiEnv = EnvSet("production") THEN 3000
    ELSE 2000

\* the limit the call is held to
LimitInForce == IF tMaxTime.supplied THEN tMaxTime.value ELSE BudgetOfEnv

\* C11: assertResponseTime invokes fn exactly once; it succeeds if and only
\* if fn resolves with elapsed <= maxTime (boundary included), and then
\* returns fn's result unchanged; maxTime is apiConfig.maxResponseTimeMs
\* when omitted.
C11_AssertResponseTime ==
    /\ tCalls <= 1
    /\ tpc \in {"awaiting", "done"} => tCalls = 1
    /\ tpc = "done"
       => /\ tResult.state \in {"resolved", "rejected"}
          /\ tResult.state = "resolved"
             <=> (tFnOutcome.state = "resolved" /\ tFnOutcome.duration <= LimitInForce)
          /\ tResult.state = "resolved" => tResult.value = tFnOutcome.value
          /\ (tFnOutcome.state = "resolved" /\ tFnOutcome.duration > LimitInForce)
             => tResult.error.kind = "timing"
          /\ (tMaxTime = MaxTimeOf(100) /\ tFnOutcome = FnSettled("resolved", "result-a", 150))
             => tResult.state = "rejected"
          /\ (tMaxTime = MaxTimeOf(100) /\ tFnOutcome = FnSettled("resolved", "result-a", 100))
             => tResult = TimeResolved("result-a")

C11_Witness ==
    /\ tpc = "done"
    /\ tMaxTime = MaxTimeOmitted
    /\ apiEnv = EnvSet("production")
    /\ tFnOutcome = FnSettled("resolved", "result-b", 3000)
    /\ tResult = TimeResolved("result-b")
    /\ tClock = 4000

\* C12: whenever assertResponseTime fails on the time limit, the failure
\* message contains the measured elapsed time and the limit in force.
C12_TimingMessage ==
    (tpc = "done" /\ tResult.state = "rejected" /\ tResult.error.kind = "timing")
        => /\ Includes(tResult.error.message, <<ToString(tFnOutcome.duration)>>)
           /\ Includes(tResult.error.message, <<ToString(LimitInForce)>>)
           /\ (tMaxTime = MaxTimeOf(100) /\ tFnOutcome.duration = 150)
              => /\ Includes(tResult.error.message, <<"150">>)
                 /\ Includes(tResult.error.message, <<"100">>)

C12_Witness ==
    /\ tpc = "done"
    /\ tMaxTime = MaxTimeOf(100)
    /\ tFnOutcome.duration = 150
    /\ tClock = 1150
    /\ tResult.state = "rejected"
    /\ tResult.error.kind = "timing"

\* C14: for each API_ENV in local, dev, staging, production apiConfig is
\* that environment's profile, all four fields from the same table entry;
\* an unset API_ENV selects the dev profile.
C14_ConfigProfile ==
    /\ apiEnv = EnvSet("local")
       => apiConfig = [baseUrl |-> "http://localhost:3000/api", timeoutMs |-> 5000,
                       maxResponseTimeMs |-> 1000, authRetryAttempts |-> 1]
    /\ apiEnv \in {EnvSet("dev"), EnvUnset}
       => apiConfig = [baseUrl |-> "https://dev-api.example.com", timeoutMs |-> 10000,
                       maxResponseTimeMs |-> 2000, authRetryAttempts |-> 2]
    /\ apiEnv = EnvSet("staging")
       => apiConfig = [baseUrl |-> "https://staging-api.example.com", timeoutMs |-> 10000,
                       maxResponseTimeMs |-> 2000, authRetryAttempts |-> 2]
    /\ apiEnv = EnvSet("production")
       => apiConfig = [baseUrl |-> "https://api.example.com", timeoutMs |-> 15000,
                       maxResponseTimeMs |-> 3000, authRetryAttempts |-> 3]
    /\ \E name \in DOMAIN Environments : apiConfig = Environments[name]

C14_Witness ==
    /\ apiEnv = EnvUnset
    /\ apiConfig.baseUrl = "https://dev-api.example.com"
    /\ tMaxTime = MaxTimeOmitted
    /\ tpc = "done"
    /\ tFnOutcome.duration = 2050
    /\ tResult.error.kind = "timing"

----------------------------------------------------------------------------
(* UsersApi.login: src/unnamed/part_007:291-295, retryOnError around post *)

\* what the login endpoint may answer
LoginAnswers ==
    { [status |-> 200, body |-> BodyToken],
      [status |-> 200, body |-> BodyNoToken],
      [status |-> 401, body |-> BodyInvalidCredentials],
      [status |-> 429, body |-> BodyRateLimit] }

LoginOptionSets ==
    { o \in OptionSets : o.validateStatus = "undefined" }

LoginDurations == {0, 50, 150}

MeasuresFirstAttemptOnly(opts, a) == Timed(opts) /\ a = 0
\* part_007:93-95: every post call chooses assertResponseTime(requestFn, ...)
\* or requestFn() by itself
MeasuresAttempt(opts, a) == Timed(opts)

\* part_007:69-91: what requestFn of post settles with for an answer
PostRequestOutcome(opts, resp) ==
    IF ValidateStatus(opts) /\ ~StatusOk(resp.status)
    THEN Rejected(ErrorOf("status", StatusErrorMessage(resp)))
    ELSE JsonBodyOutcome(opts, resp)

\* part_007:93-95 with apiTestUtils.ts:47-52: what post settles with
PostOutcome(opts, resp, measured, dt) ==
    LET r == PostRequestOutcome(opts, resp) IN
    IF measured /\ r.state = "resolved" /\ ~WithinLimit(dt, opts.maxResponseTime)
    THEN Rejected(ErrorOf("timing", TimingErrorMessage(dt, opts.maxResponseTime)))
    ELSE r

PostRecord(a, t) == [attempt |-> a, issued |-> t, settled |-> t, open |-> TRUE]
MeasureRecord(a, t) == [attempt |-> a, start |-> t, elapsed |-> 0, read |-> FALSE]
WaitRecord(a, t, ms) == [attempt |-> a, from |-> t, to |-> t + ms, ms |-> ms]

\* part_007:291-292, apiTestUtils.ts:76-81: login enters retryOnError with
\* the default retries and retryableErrors
LoginInit ==
    /\ lConfig \in { Environments[n] : n \in DOMAIN Environments }
    /\ lOptions \in LoginOptionSets
    /\ lpc = "loop"
    /\ lAttempt = 0
    /\ lClock \in {0, 1000}
    /\ lLastError = NoError
    /\ lPosts = <<>>
    /\ lMeasures = <<>>
    /\ lWaits = <<>>
    /\ lResult = Pending

\* apiTestUtils.ts:81-83, part_007:66-70, 93-95, apiTestUtils.ts:46-47:
\* fn() calls post, which reads startTime when timed and issues the request
LoginCallPost ==
    /\ lpc = "loop"
    /\ LoopCondition(lAttempt, lConfig.authRetryAttempts)
    /\ lPosts' = Append(lPosts, PostRecord(lAttempt, lClock))
    /\ lMeasures' = IF MeasuresAttempt(lOptions, lAttempt)
                    THEN Append(lMeasures, MeasureRecord(lAttempt, lClock))
                    ELSE lMeasures
    /\ lpc' = "awaiting"
    /\ UNCHANGED <<lConfig, lOptions, lAttempt, lClock, lLastError, lWaits, lResult>>
    /\ UNCHANGED nonLoginVars

\* post settles; apiTestUtils.ts:83-96: return its result, or rethrow, or
\* start the backoff timer
LoginPostSettles ==
    /\ lpc = "awaiting"
    /\ \E ans \in LoginAnswers, dt \in LoginDurations :
        LET resp == [received |-> TRUE, status |-> ans.status, body |-> ans.body,
                     headers |-> "json-headers"]
            measured == Len(lMeasures) > 0 /\ lMeasures[Len(lMeasures)].attempt = lAttempt
            req == PostRequestOutcome(lOptions, resp)
            r == PostOutcome(lOptions, resp, measured, dt)
        IN /\ lClock' = lClock + dt
           /\ lPosts' = [lPosts EXCEPT ![Len(lPosts)].settled = lClock + dt,
                                       ![Len(lPosts)].open = FALSE]
           /\ lMeasures' = IF measured /\ req.state = "resolved"
                           THEN [lMeasures EXCEPT ![Len(lMeasures)].elapsed = dt,
                                                  ![Len(lMeasures)].read = TRUE]
                           ELSE lMeasures
           /\ IF r.state = "resolved"
              THEN /\ lResult' = r
                   /\ lpc' = "done"
                   /\ UNCHANGED <<lLastError, lWaits>>
              ELSE /\ lLastError' = r.error
                   /\ IF ~ShouldRetry(r.error, DefaultRetryableErrors)
                         \/ Exhausted(lAttempt, lConfig.authRetryAttempts)
                      THEN /\ lResult' = r
                           /\ lpc' = "done"
                           /\ lWaits' = lWaits
                      ELSE /\ lResult' = lResult
                           /\ lpc' = "waiting"
                           /\ lWaits' = Append(lWaits,
                                  WaitRecord(lAttempt, lClock + dt, BackoffMs(lAttempt)))
    /\ UNCHANGED <<lConfig, lOptions, lAttempt>>
    /\ UNCHANGED nonLoginVars

\* apiTestUtils.ts:96, 81: the backoff has elapsed, attempt++
LoginTimerFires ==
    /\ lpc = "waiting"
    /\ lClock' = lWaits[Len(lWaits)].to
    /\ lAttempt' = lAttempt + 1
    /\ lpc' = "loop"
    /\ UNCHANGED <<lConfig, lOptions, lLastError, lPosts, lMeasures, lWaits, lResult>>
    /\ UNCHANGED nonLoginVars

\* apiTestUtils.ts:100 is not reached: authRetryAttempts is at least 1 in
\* every profile, and the last attempt returns or rethrows
LoginNext ==
    \/ LoginCallPost
    \/ LoginPostSettles
    \/ LoginTimerFires

LoginSpecInit == LoginInit /\ RetryIdle /\ ApiIdle /\ TimeIdle /\ SchemaIdle /\ FillIdle /\ SearchIdle /\ ConcIdle
        /\ CfgIdle
        /\ ClickIdle
        /\ CartIdle

LoginSpec == LoginSpecInit /\ [][LoginNext]_vars

----------------------------------------------------------------------------
(* Properties of UsersApi.login *)

LoginDone == lpc = "done"

LoginStartedAt == IF lPosts = <<>> THEN lClock ELSE lPosts[1].issued

\* C13 (as stated): for login called with maxResponseTime one time
\* measurement is made per login call, and it spans the whole call: every
\* attempt and every backoff wait between the attempts. (Stated for a
\* non-zero maxResponseTime, the case in which post measures at all.)
C13_TimingWrapsRetries ==
    (LoginDone /\ lOptions.maxSupplied /\ lOptions.maxResponseTime # 0)
        => /\ Len(lMeasures) = 1
           /\ lMeasures[1].start = LoginStartedAt
           /\ lMeasures[1].read => lMeasures[1].start + lMeasures[1].elapsed = lClock

\* C13 (amended): the timing assertion sits inside each attempt. With a
\* maxResponseTime that post acts on, one measurement is started per POST
\* attempt, at the moment that request is issued, and it is read only when
\* that attempt's request resolves, spanning that request alone; without
\* one no measurement is made. No measurement spans a backoff wait or a
\* second attempt.
C13_TimingPerAttempt ==
    /\ Len(lMeasures) = (IF Timed(lOptions) THEN Len(lPosts) ELSE 0)
    /\ \A i \in DOMAIN lMeasures :
          /\ lMeasures[i].attempt = lPosts[i].attempt
          /\ lMeasures[i].start = lPosts[i].issued
          /\ lMeasures[i].read
             => /\ ~lPosts[i].open
                /\ lMeasures[i].start + lMeasures[i].elapsed = lPosts[i].settled
          /\ \A w \in DOMAIN lWaits :
                lMeasures[i].read
                => ( lMeasures[i].start + lMeasures[i].elapsed <= lWaits[w].from
                     \/ lWaits[w].to <= lMeasures[i].start )
    /\ \A i \in DOMAIN lMeasures : \A j \in DOMAIN lPosts :
          (i # j /\ lMeasures[i].read)
          => ( lMeasures[i].start + lMeasures[i].elapsed <= lPosts[j].issued
               \/ lPosts[j].settled <= lMeasures[i].start )

C13_Witness ==
    /\ LoginDone
    /\ lOptions.maxSupplied
    /\ lOptions.maxResponseTime = 100
    /\ Len(lPosts) = 3
    /\ Len(lWaits) = 2
    /\ Len(lMeasures) = 3
    /\ lResult.state = "resolved"
    /\ lMeasures[3].read
    /\ lMeasures[3].elapsed = 50
    /\ lClock - LoginStartedAt = 450

----------------------------------------------------------------------------
(* API fixtures: src/unnamed/part_002 *)

\* users.mockUsers, part_002:8-21
MockUsers ==
    JArr(<<
        JObj(<<
            Member(<<"id">>, JNum("1")),
            Member(<<"first_name">>, JStr(<<"George">>)),
            Member(<<"last_name">>, JStr(<<"Bluth">>)),
            Member(<<"email">>, JStr(<<"george.bluth", "@", "reqres.in">>)) >>),
        JObj(<<
            Member(<<"id">>, JNum("2")),
            Member(<<"first_name">>, JStr(<<"Janet">>)),
            Member(<<"last_name">>, JStr(<<"Weaver">>)),
            Member(<<"email">>, JStr(<<"janet.weaver", "@", "reqres.in">>)) >>) >>)

\* users.newUserResponse, part_002:26-31
NewUserResponse ==
    JObj(<<
        Member(<<"name">>, JStr(<<"Test", "User">>)),
        Member(<<"job">>, JStr(<<"Software", "Tester">>)),
        Member(<<"id">>, JStr(<<"123">>)),
        Member(<<"createdAt">>, JStr(<<"2023-05-16", "T", "12:34:56.789", "Z">>)) >>)

\* users.loginResponse, part_002:36-38
LoginResponse ==
    JObj(<<
        Member(<<"token">>, JStr(<<"QpwL5tke4Pnpja7X4">>)) >>)

\* users.userResponse, part_002:39-47
UserResponse ==
    JObj(<<
        Member(<<"data">>, JObj(<<
            Member(<<"id">>, JNum("2")),
            Member(<<"email">>, JStr(<<"janet.weaver", "@", "reqres.in">>)),
            Member(<<"first_name">>, JStr(<<"Janet">>)),
            Member(<<"last_name">>, JStr(<<"Weaver">>)),
            Member(<<"avatar">>, JStr(<<"https://reqres.in/img/faces/2-image.jpg">>)) >>)) >>)

\* products.productsList, part_002:53-83
ProductsList ==
    JObj(<<
        Member(<<"data">>, JArr(<<
            JObj(<<
                Member(<<"id">>, JNum("1")),
                Member(<<"name">>, JStr(<<"Premium", "Hammer">>)),
                Member(<<"description">>, JStr(<<"High", "quality", "steel", "hammer", "with", "ergonomic", "grip">>)),
                Member(<<"price">>, JStr(<<"29.99">>)),
                Member(<<"category_id">>, JNum("1")),
                Member(<<"brand_id">>, JNum("2")),
                Member(<<"image">>, JStr(<<"hammer.jpg">>)) >>),
            JObj(<<
                Member(<<"id">>, JNum("2")),
                Member(<<"name">>, JStr(<<"Professional", "Screwdriver", "Set">>)),
                Member(<<"description">>, JStr(<<"Set", "of", "10", "professional", "screwdrivers">>)),
                Member(<<"price">>, JStr(<<"45.50">>)),
                Member(<<"category_id">>, JNum("1")),
                Member(<<"brand_id">>, JNum("3")),
                Member(<<"image">>, JStr(<<"screwdriver_set.jpg">>)) >>) >>)),
        Member(<<"meta">>, JObj(<<
            Member(<<"pagination">>, JObj(<<
                Member(<<"total">>, JNum("24")),
                Member(<<"count">>, JNum("2")),
                Member(<<"per_page">>, JNum("10")),
                Member(<<"current_page">>, JNum("1")),
                Member(<<"total_pages">>, JNum("3")) >>)) >>)) >>)

\* products.productDetail, part_002:86-104
ProductDetail ==
    JObj(<<
        Member(<<"id">>, JNum("1")),
        Member(<<"name">>, JStr(<<"Premium", "Hammer">>)),
        Member(<<"description">>, JStr(<<"High", "quality", "steel", "hammer", "with", "ergonomic", "grip">>)),
        Member(<<"price">>, JStr(<<"29.99">>)),
        Member(<<"category_id">>, JNum("1")),
        Member(<<"brand_id">>, JNum("2")),
        Member(<<"image">>, JStr(<<"hammer.jpg">>)),
        Member(<<"category">>, JObj(<<
            Member(<<"id">>, JNum("1")),
            Member(<<"name">>, JStr(<<"Hand", "Tools">>)),
            Member(<<"slug">>, JStr(<<"hand-tools">>)) >>)),
        Member(<<"brand">>, JObj(<<
            Member(<<"id">>, JNum("2")),
            Member(<<"name">>, JStr(<<"ToolMaster">>)),
            Member(<<"slug">>, JStr(<<"toolmaster">>)) >>)) >>)

\* products.nameSearchResults, part_002:121-151
NameSearchResults ==
    JObj(<<
        Member(<<"data">>, JArr(<<
            JObj(<<
                Member(<<"id">>, JNum("1")),
                Member(<<"name">>, JStr(<<"Premium", "Hammer">>)),
                Member(<<"description">>, JStr(<<"High", "quality", "steel", "hammer", "with", "ergonomic", "grip">>)),
                Member(<<"price">>, JStr(<<"29.99">>)),
                Member(<<"category_id">>, JNum("1")),
                Member(<<"brand_id">>, JNum("2")),
                Member(<<"image">>, JStr(<<"hammer.jpg">>)) >>),
            JObj(<<
                Member(<<"id">>, JNum("5")),
                Member(<<"name">>, JStr(<<"Framing", "Hammer">>)),
                Member(<<"description">>, JStr(<<"Heavy", "duty", "hammer", "perfect", "for", "framing">>)),
                Member(<<"price">>, JStr(<<"35.99">>)),
                Member(<<"category_id">>, JNum("1")),
                Member(<<"brand_id">>, JNum("4")),
                Member(<<"image">>, JStr(<<"framing_hammer.jpg">>)) >>) >>)),
        Member(<<"meta">>, JObj(<<
            Member(<<"pagination">>, JObj(<<
                Member(<<"total">>, JNum("2")),
                Member(<<"count">>, JNum("2")),
                Member(<<"per_page">>, JNum("10")),
                Member(<<"current_page">>, JNum("1")),
                Member(<<"total_pages">>, JNum("1")) >>)) >>)) >>)

\* products.priceRangeResults, part_002:154-184
PriceRangeResults ==
    JObj(<<
        Member(<<"data">>, JArr(<<
            JObj(<<
                Member(<<"id">>, JNum("3")),
                Member(<<"name">>, JStr(<<"Tape", "Measure">>)),
                Member(<<"description">>, JStr(<<"25-foot", "tape", "measure", "with", "magnetic", "hook">>)),
                Member(<<"price">>, JStr(<<"12.99">>)),
                Member(<<"category_id">>, JNum("1")),
                Member(<<"brand_id">>, JNum("2")),
                Member(<<"image">>, JStr(<<"tape_measure.jpg">>)) >>),
            JObj(<<
                Member(<<"id">>, JNum("8")),
                Member(<<"name">>, JStr(<<"Safety", "Goggles">>)),
                Member(<<"description">>, JStr(<<"Anti-fog", "safety", "goggles">>)),
                Member(<<"price">>, JStr(<<"15.49">>)),
                Member(<<"category_id">>, JNum("3")),
                Member(<<"brand_id">>, JNum("5")),
                Member(<<"image">>, JStr(<<"safety_goggles.jpg">>)) >>) >>)),
        Member(<<"meta">>, JObj(<<
            Member(<<"pagination">>, JObj(<<
                Member(<<"total">>, JNum("8")),
                Member(<<"count">>, JNum("2")),
                Member(<<"per_page">>, JNum("10")),
                Member(<<"current_page">>, JNum("1")),
                Member(<<"total_pages">>, JNum("1")) >>)) >>)) >>)

\* products.categoryResults, part_002:187-217
CategoryResults ==
    JObj(<<
        Member(<<"data">>, JArr(<<
            JObj(<<
                Member(<<"id">>, JNum("12")),
                Member(<<"name">>, JStr(<<"Circular", "Saw">>)),
                Member(<<"description">>, JStr(<<"7.25-inch", "circular", "saw", "with", "laser", "guide">>)),
                Member(<<"price">>, JStr(<<"89.99">>)),
                Member(<<"category_id">>, JNum("2")),
                Member(<<"brand_id">>, JNum("4")),
                Member(<<"image">>, JStr(<<"circular_saw.jpg">>)) >>),
            JObj(<<
                Member(<<"id">>, JNum("15")),
                Member(<<"name">>, JStr(<<"Drill", "Set">>)),
                Member(<<"description">>, JStr(<<"Cordless", "drill", "with", "20V", "battery", "and", "accessories">>)),
                Member(<<"price">>, JStr(<<"129.99">>)),
                Member(<<"category_id">>, JNum("2")),
                Member(<<"brand_id">>, JNum("2")),
                Member(<<"image">>, JStr(<<"drill_set.jpg">>)) >>) >>)),
        Member(<<"meta">>, JObj(<<
            Member(<<"pagination">>, JObj(<<
                Member(<<"total">>, JNum("6")),
                Member(<<"count">>, JNum("2")),
                Member(<<"per_page">>, JNum("10")),
                Member(<<"current_page">>, JNum("1")),
                Member(<<"total_pages">>, JNum("1")) >>)) >>)) >>)

\* orders.newOrderResponse, part_002:240-252
NewOrderResponse ==
    JObj(<<
        Member(<<"id">>, JNum("1001")),
        Member(<<"user_id">>, JNum("42")),
        Member(<<"order_status_id">>, JNum("1")),
        Member(<<"shipping_address">>, JStr(<<"123", "Test", "Street">>)),
        Member(<<"shipping_city">>, JStr(<<"Test", "City">>)),
        Member(<<"shipping_state">>, JStr(<<"TS">>)),
        Member(<<"shipping_zip">>, JStr(<<"12345">>)),
        Member(<<"shipping_country">>, JStr(<<"US">>)),
        Member(<<"payment_type">>, JStr(<<"credit_card">>)),
        Member(<<"created_at">>, JStr(<<"2023-05-16", "T", "15:30:45.000", "Z">>)),
        Member(<<"updated_at">>, JStr(<<"2023-05-16", "T", "15:30:45.000", "Z">>)) >>)

\* orders.orderDetail, part_002:255-285
OrderDetail ==
    JObj(<<
        Member(<<"id">>, JNum("1001")),
        Member(<<"user_id">>, JNum("42")),
        Member(<<"order_status_id">>, JNum("1")),
        Member(<<"shipping_address">>, JStr(<<"123", "Test", "Street">>)),
        Member(<<"shipping_city">>, JStr(<<"Test", "City">>)),
        Member(<<"shipping_state">>, JStr(<<"TS">>)),
        Member(<<"shipping_zip">>, JStr(<<"12345">>)),
        Member(<<"shipping_country">>, JStr(<<"US">>)),
        Member(<<"payment_type">>, JStr(<<"credit_card">>)),
        Member(<<"created_at">>, JStr(<<"2023-05-16", "T", "15:30:45.000", "Z">>)),
        Member(<<"updated_at">>, JStr(<<"2023-05-16", "T", "15:30:45.000", "Z">>)),
        Member(<<"items">>, JArr(<<
            JObj(<<
                Member(<<"id">>, JNum("2001")),
                Member(<<"order_id">>, JNum("1001")),
                Member(<<"product_id">>, JNum("1")),
                Member(<<"quantity">>, JNum("2")),
                Member(<<"price">>, JStr(<<"29.99">>)),
                Member(<<"product">>, JObj(<<
                    Member(<<"id">>, JNum("1")),
                    Member(<<"name">>, JStr(<<"Premium", "Hammer">>)),
                    Member(<<"description">>, JStr(<<"High", "quality", "steel", "hammer", "with", "ergonomic", "grip">>)),
                    Member(<<"price">>, JStr(<<"29.99">>)),
                    Member(<<"category_id">>, JNum("1")),
                    Member(<<"brand_id">>, JNum("2")),
                    Member(<<"image">>, JStr(<<"hammer.jpg">>)) >>)) >>) >>)) >>)

\* orders.ordersList, part_002:295-333
OrdersList ==
    JObj(<<
        Member(<<"data">>, JArr(<<
            JObj(<<
                Member(<<"id">>, JNum("1001")),
                Member(<<"user_id">>, JNum("42")),
                Member(<<"order_status_id">>, JNum("1")),
                Member(<<"shipping_address">>, JStr(<<"123", "Test", "Street">>)),
                Member(<<"shipping_city">>, JStr(<<"Test", "City">>)),
                Member(<<"shipping_state">>, JStr(<<"TS">>)),
                Member(<<"shipping_zip">>, JStr(<<"12345">>)),
                Member(<<"shipping_country">>, JStr(<<"US">>)),
                Member(<<"payment_type">>, JStr(<<"credit_card">>)),
                Member(<<"created_at">>, JStr(<<"2023-05-16", "T", "15:30:45.000", "Z">>)),
                Member(<<"updated_at">>, JStr(<<"2023-05-16", "T", "15:30:45.000", "Z">>)) >>),
            JObj(<<
                Member(<<"id">>, JNum("1002")),
                Member(<<"user_id">>, JNum("42")),
                Member(<<"order_status_id">>, JNum("2")),
                Member(<<"shipping_address">>, JStr(<<"456", "Other", "Street">>)),
                Member(<<"shipping_city">>, JStr(<<"Other", "City">>)),
                Member(<<"shipping_state">>, JStr(<<"OS">>)),
                Member(<<"shipping_zip">>, JStr(<<"67890">>)),
                Member(<<"shipping_country">>, JStr(<<"US">>)),
                Member(<<"payment_type">>, JStr(<<"paypal">>)),
                Member(<<"created_at">>, JStr(<<"2023-05-15", "T", "10:22:30.000", "Z">>)),
                Member(<<"updated_at">>, JStr(<<"2023-05-15", "T", "10:22:30.000", "Z">>)) >>) >>)),
        Member(<<"meta">>, JObj(<<
            Member(<<"pagination">>, JObj(<<
                Member(<<"total">>, JNum("12")),
                Member(<<"count">>, JNum("2")),
                Member(<<"per_page">>, JNum("5")),
                Member(<<"current_page">>, JNum("1")),
                Member(<<"total_pages">>, JNum("3")) >>)) >>)) >>)

\* orders.ordersSecondPage, part_002:336-374
OrdersSecondPage ==
    JObj(<<
        Member(<<"data">>, JArr(<<
            JObj(<<
                Member(<<"id">>, JNum("1003")),
                Member(<<"user_id">>, JNum("42")),
                Member(<<"order_status_id">>, JNum("3")),
                Member(<<"shipping_address">>, JStr(<<"789", "New", "Street">>)),
                Member(<<"shipping_city">>, JStr(<<"New", "City">>)),
                Member(<<"shipping_state">>, JStr(<<"NS">>)),
                Member(<<"shipping_zip">>, JStr(<<"11223">>)),
                Member(<<"shipping_country">>, JStr(<<"US">>)),
                Member(<<"payment_type">>, JStr(<<"credit_card">>)),
                Member(<<"created_at">>, JStr(<<"2023-05-14", "T", "08:15:10.000", "Z">>)),
                Member(<<"updated_at">>, JStr(<<"2023-05-14", "T", "08:15:10.000", "Z">>)) >>),
            JObj(<<
                Member(<<"id">>, JNum("1004")),
                Member(<<"user_id">>, JNum("42")),
                Member(<<"order_status_id">>, JNum("4")),
                Member(<<"shipping_address">>, JStr(<<"321", "First", "Avenue">>)),
                Member(<<"shipping_city">>, JStr(<<"First", "City">>)),
                Member(<<"shipping_state">>, JStr(<<"FC">>)),
                Member(<<"shipping_zip">>, JStr(<<"33445">>)),
                Member(<<"shipping_country">>, JStr(<<"US">>)),
                Member(<<"payment_type">>, JStr(<<"credit_card">>)),
                Member(<<"created_at">>, JStr(<<"2023-05-13", "T", "14:40:22.000", "Z">>)),
                Member(<<"updated_at">>, JStr(<<"2023-05-13", "T", "14:40:22.000", "Z">>)) >>) >>)),
        Member(<<"meta">>, JObj(<<
            Member(<<"pagination">>, JObj(<<
                Member(<<"total">>, JNum("12")),
                Member(<<"count">>, JNum("2")),
                Member(<<"per_page">>, JNum("5")),
                Member(<<"current_page">>, JNum("2")),
                Member(<<"total_pages">>, JNum("3")) >>)) >>)) >>)

----------------------------------------------------------------------------
(* validateSchema called on the fixtures and on damaged payloads *)

SchemaCase(n, v, sc) == [name |-> n, data |-> v, schema |-> sc]

\* the fixture / schema pairs of one kind
FixtureCases ==
    { SchemaCase("products.productsList", ProductsList, ProductsListSchema),
      SchemaCase("products.nameSearchResults", NameSearchResults, ProductsListSchema),
      SchemaCase("products.priceRangeResults", PriceRangeResults, ProductsListSchema),
      SchemaCase("products.categoryResults", CategoryResults, ProductsListSchema),
      SchemaCase("products.productDetail", ProductDetail, ProductSchema),
      SchemaCase("orders.orderDetail", OrderDetail, OrderSchema),
      SchemaCase("orders.newOrderResponse", NewOrderResponse, OrderSchema),
      SchemaCase("orders.ordersList", OrdersList, OrdersListSchema),
      SchemaCase("orders.ordersSecondPage", OrdersSecondPage, OrdersListSchema),
      SchemaCase("users.mockUsers", MockUsers, UsersListSchema),
      SchemaCase("users.userResponse.data", ValueOf(UserResponse, <<"data">>), UserSchema),
      SchemaCase("users.newUserResponse", NewUserResponse, UserCreationSchema),
      SchemaCase("users.loginResponse", LoginResponse, AuthResponseSchema) }

FixtureNames == { c.name : c \in FixtureCases }

\* An edit of an object payload: some of its members (or the member `extra`,
\* which no schema declares) are dropped or given another value.
Drop == [type |-> "drop", str |-> <<>>, fields |-> <<>>]
Replacements ==
    { JNull, JNum("7"), JStr(<<"x">>), JBool("true"),
      JObj(<< Member(<<"id">>, JStr(<<"x">>)) >>) }
EditKeys(v) == { v.fields[i].key : i \in DOMAIN v.fields } \cup { <<"extra">> }
Edits(v) ==
    UNION { [K -> {Drop} \cup Replacements] :
            K \in { K \in SUBSET EditKeys(v) : Cardinality(K) <= MaxEdits } }

RECURSIVE EditMembers(_, _)
EditMembers(ms, e) ==
    IF ms = <<>> THEN <<>>
    ELSE (IF ms[1].key \in DOMAIN e
          THEN (IF e[ms[1].key] = Drop THEN <<>>
                ELSE << Member(ms[1].key, e[ms[1].key]) >>)
          ELSE << ms[1] >>)
         \o EditMembers(Tail(ms), e)

ApplyEdits(v, e) ==
    JObj(EditMembers(v.fields, e)
         \o (IF <<"extra">> \in DOMAIN e /\ e[<<"extra">>] # Drop /\ ~HasKey(v, <<"extra">>)
             THEN << Member(<<"extra">>, e[<<"extra">>]) >>
             ELSE <<>>))

\* payloads handed to validateSchema with productSchema
ProductCases ==
    { SchemaCase("product", ApplyEdits(ProductDetail, e), ProductSchema) :
        e \in Edits(ProductDetail) }
    \cup { SchemaCase("product", v, ProductSchema) :
            v \in { JNull, JStr(<<"pliers">>), JArr(<<>>) } }

\* payloads handed to validateSchema with userSchema
UserCases ==
    { SchemaCase("user", ApplyEdits(ValueOf(UserResponse, <<"data">>), e), UserSchema) :
        e \in Edits(ValueOf(UserResponse, <<"data">>)) }

SchemaCases == FixtureCases \cup ProductCases \cup UserCases

SchemaPending == [state |-> "pending", message |-> <<>>]
SchemaReturned == [state |-> "returned", message |-> <<>>]
SchemaThrown(msg) == [state |-> "thrown", message |-> msg]

SchemaInit ==
    \E c \in SchemaCases :
        /\ sName = c.name
        /\ sData = c.data
        /\ sSchema = c.schema
        /\ spc = "call"
        /\ sResult = SchemaPending

\* lines 24-25 and 32: the data is valid, the call returns true
ValidateReturns ==
    /\ spc = "call"
    /\ SchemaViolations(sData, sSchema) = <<>>
    /\ spc' = "done"
    /\ sResult' = SchemaReturned
    /\ UNCHANGED <<sName, sData, sSchema>>
    /\ UNCHANGED nonSchemaVars

\* lines 24-30: the data is invalid, the call throws
ValidateThrows ==
    /\ spc = "call"
    /\ SchemaViolations(sData, sSchema) # <<>>
    /\ spc' = "done"
    /\ sResult' = SchemaThrown(SchemaErrorMessage(sData, SchemaViolations(sData, sSchema)))
    /\ UNCHANGED <<sName, sData, sSchema>>
    /\ UNCHANGED nonSchemaVars

SchemaNext ==
    \/ ValidateReturns
    \/ ValidateThrows

SchemaSpecInit == SchemaInit /\ RetryIdle /\ ApiIdle /\ TimeIdle /\ LoginIdle /\ FillIdle /\ SearchIdle /\ ConcIdle
        /\ CfgIdle
        /\ ClickIdle
        /\ CartIdle

SchemaSpec == SchemaSpecInit /\ [][SchemaNext]_vars

----------------------------------------------------------------------------
(* Properties of validateSchema *)

SchemaDone == spc = "done"
Returned == sResult.state = "returned"
Thrown == sResult.state = "thrown"

OfProductSchema == SchemaDone /\ sSchema = ProductSchema
LacksPrice(v) == v.type = "object" /\ ~HasKey(v, <<"price">>)
MissingPriceLine ==
    <<"data", "must", "have", "required", "property", "'", "price", "'">>

HasOfType(v, k, ts) == HasKey(v, <<k>>) /\ ValueOf(v, <<k>>).type \in ts
AbsentOrOfType(v, k, ts) == ~HasKey(v, <<k>>) \/ ValueOf(v, <<k>>).type \in ts

\* the five required fields are present with values of the allowed types
RequiredFieldsOk(v) ==
    /\ v.type = "object"
    /\ HasOfType(v, "id", {"number"})
    /\ HasOfType(v, "name", {"string"})
    /\ HasOfType(v, "description", {"string"})
    /\ HasOfType(v, "price", {"string", "number"})
    /\ HasOfType(v, "category_id", {"number", "string"})

\* a `category` or `brand` member: absent, null, or an object whose id, name
\* and slug, where present, are a number and two strings
NamedRefOk(v, k) ==
    \/ AbsentOrOfType(v, k, {"null"})
    \/ /\ ValueOf(v, <<k>>).type = "object"
       /\ AbsentOrOfType(ValueOf(v, <<k>>), "id", {"number"})
       /\ AbsentOrOfType(ValueOf(v, <<k>>), "name", {"string"})
       /\ AbsentOrOfType(ValueOf(v, <<k>>), "slug", {"string"})

\* the optional fields the schema declares, where present, have allowed types
OptionalFieldsOk(v) ==
    /\ AbsentOrOfType(v, "brand_id", {"number", "string", "null"})
    /\ AbsentOrOfType(v, "image", {"string", "null"})
    /\ NamedRefOk(v, "category")
    /\ NamedRefOk(v, "brand")

\* C15 as stated: with productSchema, validateSchema throws with a message
\* naming the missing 'price' property for every (object) payload lacking
\* price, and returns true for every payload whose five required fields are
\* present with values of the allowed types.
C15_RequiredFieldsSuffice ==
    OfProductSchema =>
        /\ LacksPrice(sData) => Thrown /\ Includes(sResult.message, MissingPriceLine)
        /\ RequiredFieldsOk(sData) => Returned

\* C15 amended: with productSchema, validateSchema throws with a message
\* naming the missing 'price' property for every object payload lacking
\* price, and it returns true exactly for the object payloads whose five
\* required fields are present with allowed types and whose declared optional
\* fields (brand_id, image, category, brand), where present, have allowed
\* types too.
C15_ProductSchema ==
    OfProductSchema =>
        /\ LacksPrice(sData) => Thrown /\ Includes(sResult.message, MissingPriceLine)
        /\ Returned <=> RequiredFieldsOk(sData) /\ OptionalFieldsOk(sData)

C15_Witness ==
    /\ OfProductSchema
    /\ LacksPrice(sData)
    /\ Thrown
    /\ Includes(sResult.message, MissingPriceLine)

DeclaredKeys(sc) == { sc.properties[i].key : i \in DOMAIN sc.properties }
SchemaOf(sc, k) ==
    sc.properties[CHOOSE i \in DOMAIN sc.properties : sc.properties[i].key = k].schema
PresentDeclared(v, sc) == { k \in DeclaredKeys(sc) : HasKey(v, k) }

\* the constraints of schema sc that the object v at `path` violates, each
\* as the line ajv words it with (the members of v themselves, not deeper)
ViolatedHere(v, sc, path) ==
    { path \o <<"must", "have", "required", "property", "'">> \o sc.required[i] \o <<"'">> :
        i \in { j \in DOMAIN sc.required : ~HasKey(v, sc.required[j]) } }
    \cup { TypeViolation(SchemaOf(sc, k), path \o <<"/">> \o k) :
            k \in { d \in PresentDeclared(v, sc) :
                      ~TypeAllowed(ValueOf(v, d), SchemaOf(sc, d)) } }
    \cup { FormatViolation(SchemaOf(sc, k), path \o <<"/">> \o k) :
            k \in { d \in PresentDeclared(v, sc) :
                      /\ ValueOf(v, d).type = "string"
                      /\ TypeAllowed(ValueOf(v, d), SchemaOf(sc, d))
                      /\ ~FormatOk(ValueOf(v, d).str, SchemaOf(sc, d).format) } }
    \cup { path \o <<"must", "NOT", "have", "additional", "properties">> :
            i \in { j \in DOMAIN v.fields :
                      ~sc.additional /\ v.fields[j].key \notin DeclaredKeys(sc) } }

\* the same, with the members of v that are objects looked into as well
ViolatedConstraints(v, sc) ==
    ViolatedHere(v, sc, <<"data">>)
    \cup UNION { ViolatedHere(ValueOf(v, k), SchemaOf(sc, k), <<"data", "/">> \o k) :
                  k \in { d \in PresentDeclared(v, sc) :
                            /\ ValueOf(v, d).type = "object"
                            /\ TypeAllowed(ValueOf(v, d), SchemaOf(sc, d)) } }

ViolatesSeveral ==
    /\ SchemaDone
    /\ sData.type = "object"
    /\ Cardinality(ViolatedConstraints(sData, sSchema)) >= 2

\* C16: when a payload violates several constraints of a schema at once, the
\* error thrown by validateSchema lists every violated constraint, not only
\* the first one, and includes the offending payload.
C16_AllViolationsListed ==
    ViolatesSeveral =>
        /\ Thrown
        /\ \A line \in ViolatedConstraints(sData, sSchema) :
              Includes(sResult.message, line)
        /\ Includes(sResult.message, <<"Data:">> \o JsonStringifyPretty(sData))

C16_Witness ==
    /\ ViolatesSeveral
    /\ Thrown
    /\ Includes(sResult.message, <<"data", "/", "id", "must", "be", "number">>)
    /\ Includes(sResult.message,
                <<"\n", "data", "/", "email", "must", "match", "format", Q, "email", Q>>)
    /\ Includes(sResult.message, <<"Data:", "{", "\n", WS, WS, Q, "id", Q, ":", WS, "true", ",">>)

\* C17: every API fixture validates against the schema of its kind: the four
\* product lists against productsListSchema, productDetail against
\* productSchema, orderDetail and newOrderResponse against orderSchema, the
\* two order lists against ordersListSchema, mockUsers against
\* usersListSchema, userResponse.data against userSchema, newUserResponse
\* against userCreationSchema and loginResponse against authResponseSchema.
C17_FixturesValidate ==
    SchemaDone /\ sName \in FixtureNames => Returned

C17_Witness ==
    /\ SchemaDone
    /\ sName = "orders.orderDetail"
    /\ sSchema = OrderSchema
    /\ Returned

----------------------------------------------------------------------------
(* CheckoutPage.fillBillingInfo / fillInput: src/unnamed/part_010:769-793 *)

\* lines 786-791: the six fillInput calls, value first, then the candidates
FillCalls ==
    << [value |-> "firstName",
        selectors |-> << "#first-name", "[data-test=\"first-name\"]",
                         "input[name=\"firstName\"]", "input[placeholder*=\"first\"]" >>],
       [value |-> "lastName",
        selectors |-> << "#last-name", "[data-test=\"last-name\"]",
                         "input[name=\"lastName\"]", "input[placeholder*=\"last\"]" >>],
       [value |-> "address",
        selectors |-> << "[data-test=\"street\"]", "#address",
                         "input[name=\"address\"]", "input[placeholder*=\"address\"]" >>],
       [value |-> "city",
        selectors |-> << "[data-test=\"city\"]", "#city",
                         "input[name=\"city\"]", "input[placeholder*=\"city\"]" >>],
       [value |-> "state",
        selectors |-> << "[data-test=\"state\"]", "#state",
                         "input[name=\"state\"]", "input[placeholder*=\"state\"]" >>],
       [value |-> "postcode",
        selectors |-> << "[data-test=\"postal_code\"]", "#postal-code", "#postcode",
                         "input[name=\"postalCode\"]", "input[placeholder*=\"postal\"]",
                         "input[placeholder*=\"zip\"]" >>] >>

Selectors == FillCalls[fField].selectors

\* what the page answers to locator.count() and locator.isVisible(); with
\* count 0 isVisible is not asked (&& short-circuits)
ProbeAnswers ==
    { [count |-> 0, visible |-> FALSE],
      [count |-> 1, visible |-> FALSE],
      [count |-> 1, visible |-> TRUE] }

\* line 772 without the visibility test
CanFillHidden(a) == a.count > 0

\* line 772: await input.count() > 0 && await input.isVisible()
CanFill(a) == a.count > 0 /\ a.visible

ProbeRecord(a, st) ==
    [selector |-> Selectors[fCand], count |-> a.count, visible |-> a.visible,
     status |-> st]
FillRecord == [selector |-> Selectors[fCand], value |-> FillCalls[fField].value]

\* line 786: the first fillInput call starts
FillInit ==
    /\ fField = 1
    /\ fCand = 1
    /\ fpc = "probe"
    /\ fProbes = <<>>
    /\ fFilled = <<>>
    /\ fReturns = <<>>

\* lines 771-772, 779: the candidate is missing or hidden, on to the next one
ProbeSkips ==
    /\ fpc = "probe"
    /\ fCand <= Len(Selectors)
    /\ \E a \in ProbeAnswers :
        /\ ~CanFill(a)
        /\ fProbes' = Append(fProbes, ProbeRecord(a, "skipped"))
    /\ fCand' = fCand + 1
    /\ UNCHANGED <<fField, fpc, fFilled, fReturns>>
    /\ UNCHANGED nonFillVars

\* lines 771-772, 776-778: the test throws (isVisible on a locator with
\* more than one match, page closed); the catch logs, on to the next one
ProbeThrows ==
    /\ fpc = "probe"
    /\ fCand <= Len(Selectors)
    /\ fProbes' = Append(fProbes, ProbeRecord([count |-> 2, visible |-> FALSE], "threw"))
    /\ fCand' = fCand + 1
    /\ UNCHANGED <<fField, fpc, fFilled, fReturns>>
    /\ UNCHANGED nonFillVars

\* lines 771-773: the candidate passes the test, fill is called
ProbeFinds ==
    /\ fpc = "probe"
    /\ fCand <= Len(Selectors)
    /\ \E a \in ProbeAnswers :
        /\ CanFill(a)
        /\ fProbes' = Append(fProbes, ProbeRecord(a, "filling"))
    /\ fpc' = "fill"
    /\ UNCHANGED <<fField, fCand, fFilled, fReturns>>
    /\ UNCHANGED nonFillVars

\* lines 773-775: fill resolves, fillInput returns true
FillSucceeds ==
    /\ fpc = "fill"
    /\ fProbes' = [fProbes EXCEPT ![fCand].status = "filled"]
    /\ fFilled' = Append(fFilled, FillRecord)
    /\ fReturns' = <<TRUE>>
    /\ fpc' = "returned"
    /\ UNCHANGED <<fField, fCand>>
    /\ UNCHANGED nonFillVars

\* lines 773, 776-778: fill throws (input disabled, read-only or detached
\* meanwhile); the catch logs, on to the next candidate
FillThrows ==
    /\ fpc = "fill"
    /\ fProbes' = [fProbes EXCEPT ![fCand].status = "fillThrew"]
    /\ fCand' = fCand + 1
    /\ fpc' = "probe"
    /\ UNCHANGED <<fField, fFilled, fReturns>>
    /\ UNCHANGED nonFillVars

\* lines 781-782: the loop is over, fillInput returns false
ReturnFalse ==
    /\ fpc = "probe"
    /\ fCand > Len(Selectors)
    /\ fReturns' = <<FALSE>>
    /\ fpc' = "returned"
    /\ UNCHANGED <<fField, fCand, fProbes, fFilled>>
    /\ UNCHANGED nonFillVars

\* lines 786-791: the await is over, fillBillingInfo makes its next call
NextField ==
    /\ fpc = "returned"
    /\ fField < Len(FillCalls)
    /\ fField' = fField + 1
    /\ fCand' = 1
    /\ fpc' = "probe"
    /\ fProbes' = <<>>
    /\ fFilled' = <<>>
    /\ fReturns' = <<>>
    /\ UNCHANGED nonFillVars

FillNext ==
    \/ ProbeSkips
    \/ ProbeThrows
    \/ ProbeFinds
    \/ FillSucceeds
    \/ FillThrows
    \/ ReturnFalse
    \/ NextField

FillSpecInit == FillInit /\ RetryIdle /\ ApiIdle /\ TimeIdle /\ LoginIdle /\ SchemaIdle /\ SearchIdle /\ ConcIdle
        /\ CfgIdle
        /\ ClickIdle
        /\ CartIdle

FillSpec == FillSpecInit /\ [][FillNext]_vars

----------------------------------------------------------------------------
(* Properties of fillInput *)

FillRunning == fpc \in {"probe", "fill", "returned"}
CallFinished == fpc = "returned"
ExistsAndVisible(p) == p.count > 0 /\ p.visible
TriedInOrder ==
    /\ Len(fProbes) <= Len(Selectors)
    /\ \A i \in DOMAIN fProbes : fProbes[i].selector = Selectors[i]
Filled(i) == << [selector |-> Selectors[i], value |-> FillCalls[fField].value] >>

\* C18 as stated: fillInput tries its candidates in the given order, fills
\* only the first candidate that exists and is visible and then stops (at
\* most one element filled, no later candidate touched), and when every
\* candidate is missing, hidden or throws it returns false, so that
\* fillBillingInfo continues with the next field.
C18_FirstVisibleFilled ==
    FillRunning =>
        /\ TriedInOrder
        /\ Len(fFilled) <= 1
        /\ CallFinished =>
              /\ \A i \in DOMAIN fProbes :
                    ExistsAndVisible(fProbes[i]) =>
                        Len(fProbes) = i /\ fFilled = Filled(i)
              /\ (\A i \in DOMAIN fProbes : ~ExistsAndVisible(fProbes[i]))
                    => fReturns = <<FALSE>> /\ fFilled = <<>>

\* C18 amended: fillInput tries its candidates in the given order and fills
\* the first candidate that exists, is visible and whose fill succeeds, then
\* returns true: at most one element is filled per call, the filled one is
\* the last candidate touched, and every candidate before it was missing,
\* hidden, threw on the test or threw on fill. When no candidate is filled
\* every candidate has been tried and the call returns false without
\* throwing.
C18_FirstFillableFilled ==
    FillRunning =>
        /\ TriedInOrder
        /\ Len(fFilled) <= 1
        /\ \A i \in DOMAIN fProbes :
              /\ i < Len(fProbes) => fProbes[i].status \in {"skipped", "threw", "fillThrew"}
              /\ fProbes[i].status = "skipped" => ~ExistsAndVisible(fProbes[i])
              /\ fProbes[i].status \in {"filling", "filled", "fillThrew"}
                    => ExistsAndVisible(fProbes[i])
        /\ CallFinished =>
              /\ fReturns \in {<<TRUE>>, <<FALSE>>}
              /\ fReturns = <<TRUE>> =>
                    /\ fProbes # <<>>
                    /\ fProbes[Len(fProbes)].status = "filled"
                    /\ fFilled = Filled(Len(fProbes))
              /\ fReturns = <<FALSE>> =>
                    /\ Len(fProbes) = Len(Selectors)
                    /\ \A i \in DOMAIN fProbes : fProbes[i].status # "filled"
                    /\ fFilled = <<>>

\* C18 amended, second half: whatever a fillInput call returned,
\* fillBillingInfo goes on to the call for the next field.
C18_ContinuesWithNextField ==
    [][CallFinished /\ fField < Len(FillCalls) => fField' = fField + 1 /\ fpc' = "probe"]_vars

C18_Witness ==
    /\ CallFinished
    /\ fField = 2
    /\ fReturns = <<TRUE>>
    /\ Len(fProbes) = 3
    /\ fProbes[1].status = "skipped"
    /\ fProbes[2].status = "fillThrew"
    /\ fFilled = << [selector |-> "input[name=\"lastName\"]", value |-> "lastName"] >>

----------------------------------------------------------------------------
(* 'should search for products and verify with mocked API':                *)
(* src/tests/integration/product-search-integration.spec.ts:25-100         *)

\* String.prototype.toLowerCase on the tokens that occur in product names
LowerOf(tok) ==
    CASE tok = "Combination" -> "combination"
      [] tok = "Pliers" -> "pliers"
      [] tok = "PLIERS" -> "pliers"
      [] tok = "Long" -> "long"
      [] tok = "Nose" -> "nose"
      [] tok = "Claw" -> "claw"
      [] tok = "Hammer" -> "hammer"
      [] OTHER -> tok

ToLowerCase(s) == [i \in DOMAIN s |-> LowerOf(s[i])]

\* line 78: name.toLowerCase().includes('pliers')
MentionsPliers(name) == Includes(ToLowerCase(name), <<"pliers">>)

\* names the page may display after the search
ProductNames ==
    { <<"Combination", "Pliers">>, <<"Long", "Nose", "PLIERS">>, <<"Claw", "Hammer">> }

\* what getProductNames may return: up to MaxNames displayed names
NameLists == UNION { [1..n -> ProductNames] : n \in 0..MaxNames }

\* statuses the direct API call may report
ApiStatuses == {200, 404, 500}

ApiAnswered(st) == [kind |-> "response", status |-> st]
ApiThrew == [kind |-> "threw", status |-> 0]

\* the test function is entered
SearchInit ==
    /\ qpc = "start"
    /\ qRoutes = {}
    /\ qAttempt = 0
    /\ qSearchSuccess = FALSE
    /\ qNames = <<>>
    /\ qApi = <<>>
    /\ qVerdict = "running"

\* lines 30-46: the two mocked routes are installed
InstallRoutes ==
    /\ qpc = "start"
    /\ qRoutes' = {"**/api/products**", "**/api/orders**"}
    /\ qpc' = "goto"
    /\ UNCHANGED <<qAttempt, qSearchSuccess, qNames, qApi, qVerdict>>
    /\ UNCHANGED nonSearchVars

\* lines 49-54: navigation, waits and screenshot succeed
GotoSucceeds ==
    /\ qpc = "goto"
    /\ qpc' = "search"
    /\ UNCHANGED <<qRoutes, qAttempt, qSearchSuccess, qNames, qApi, qVerdict>>
    /\ UNCHANGED nonSearchVars

\* lines 49-54: one of them throws, nothing catches it
GotoThrows ==
    /\ qpc = "goto"
    /\ qpc' = "done"
    /\ qVerdict' = "failed"
    /\ UNCHANGED <<qRoutes, qAttempt, qSearchSuccess, qNames, qApi>>
    /\ UNCHANGED nonSearchVars

\* line 58: attempt < 3 && !searchSuccess
SearchLoopCondition == qAttempt < 3 /\ ~qSearchSuccess

\* lines 59-63: fill, click and wait succeed
SearchAttemptSucceeds ==
    /\ qpc = "search"
    /\ SearchLoopCondition
    /\ qSearchSuccess' = TRUE
    /\ qAttempt' = qAttempt + 1
    /\ UNCHANGED <<qpc, qRoutes, qNames, qApi, qVerdict>>
    /\ UNCHANGED nonSearchVars

\* lines 59-67: fill or click throws, the catch waits and the loop goes on
SearchAttemptFails ==
    /\ qpc = "search"
    /\ SearchLoopCondition
    /\ qAttempt' = qAttempt + 1
    /\ UNCHANGED <<qpc, qRoutes, qSearchSuccess, qNames, qApi, qVerdict>>
    /\ UNCHANGED nonSearchVars

\* lines 58, 72-76: the loop is over; screenshot, then getProductNames
ReadNames ==
    /\ qpc = "search"
    /\ ~SearchLoopCondition
    /\ \E names \in NameLists : qNames' = names
    /\ qpc' = "assertNames"
    /\ UNCHANGED <<qRoutes, qAttempt, qSearchSuccess, qApi, qVerdict>>
    /\ UNCHANGED nonSearchVars

\* lines 77-78: length > 0 and some name mentions pliers
NamesAccepted(names) ==
    /\ Len(names) > 0
    /\ \E i \in DOMAIN names : MentionsPliers(names[i])

\* lines 77-78: both expectations hold
AssertNamesPasses ==
    /\ qpc = "assertNames"
    /\ NamesAccepted(qNames)
    /\ qpc' = "api"
    /\ UNCHANGED <<qRoutes, qAttempt, qSearchSuccess, qNames, qApi, qVerdict>>
    /\ UNCHANGED nonSearchVars

\* lines 77-78: an expectation fails, the test fails
AssertNamesFails ==
    /\ qpc = "assertNames"
    /\ ~NamesAccepted(qNames)
    /\ qpc' = "done"
    /\ qVerdict' = "failed"
    /\ UNCHANGED <<qRoutes, qAttempt, qSearchSuccess, qNames, qApi>>
    /\ UNCHANGED nonSearchVars

\* lines 81-96: request.get answers; expect(status).toBe(200) and the body
\* checks run inside the try, whose catch logs whatever they throw
ApiAnswers ==
    /\ qpc = "api"
    /\ \E st \in ApiStatuses : qApi' = ApiAnswered(st)
    /\ qpc' = "final"
    /\ UNCHANGED <<qRoutes, qAttempt, qSearchSuccess, qNames, qVerdict>>
    /\ UNCHANGED nonSearchVars

\* lines 82, 94-96: request.get itself throws, the catch logs it
ApiThrows ==
    /\ qpc = "api"
    /\ qApi' = ApiThrew
    /\ qpc' = "final"
    /\ UNCHANGED <<qRoutes, qAttempt, qSearchSuccess, qNames, qVerdict>>
    /\ UNCHANGED nonSearchVars

\* lines 99-100: last screenshot, the test function returns
TestReturns ==
    /\ qpc = "final"
    /\ qpc' = "done"
    /\ qVerdict' = "passed"
    /\ UNCHANGED <<qRoutes, qAttempt, qSearchSuccess, qNames, qApi>>
    /\ UNCHANGED nonSearchVars

SearchNext ==
    \/ InstallRoutes
    \/ GotoSucceeds
    \/ GotoThrows
    \/ SearchAttemptSucceeds
    \/ SearchAttemptFails
    \/ ReadNames
    \/ AssertNamesPasses
    \/ AssertNamesFails
    \/ ApiAnswers
    \/ ApiThrows
    \/ TestReturns

SearchSpecInit ==
    SearchInit /\ RetryIdle /\ ApiIdle /\ TimeIdle /\ LoginIdle /\ SchemaIdle /\ FillIdle
        /\ ConcIdle
        /\ CfgIdle
        /\ ClickIdle
        /\ CartIdle

SearchSpec == SearchSpecInit /\ [][SearchNext]_vars

----------------------------------------------------------------------------
(* Properties of the product-search integration test *)

TestPassed == qVerdict = "passed"

\* C19: the test passes only if, after the mocked products route has been
\* installed and the UI search for 'pliers' has run, every displayed product
\* name contains 'pliers' (case-insensitive) and the direct API call reports
\* status 200.
C19_PassOnlyIfAllMatch ==
    TestPassed =>
        /\ "**/api/products**" \in qRoutes
        /\ qSearchSuccess
        /\ \A i \in DOMAIN qNames : MentionsPliers(qNames[i])
        /\ qApi = ApiAnswered(200)

----------------------------------------------------------------------------
(* retryOnError, several calls interleaved on one event loop:              *)
(* src/utils/apiTestUtils.ts:74-101                                        *)

Callers == 1..MaxCallers

\* the values of call i's own fn carry i and the number of the invocation
Tag(i, n) == 100 * i + n
OwnerOf(v) == v.id \div 100

\* what invocation n of call i's fn may reject with
ConcThrownValues(i, n) ==
    { ErrorValue(RateLimitExceeded, Tag(i, n)),
      ErrorValue(<<"Invalid", "credentials">>, Tag(i, n)) }

\* `attempt` as one variable shared by all the calls
AttemptSlotShared(i) == 1

\* line 81: `let attempt` is a local of the call
AttemptSlot(i) == i

AttemptOf(i) == cAttempt[AttemptSlot(i)]

ConcInit ==
    /\ cRetries \in [Callers -> 0..MaxConcRetries]
    /\ cpc = [i \in Callers |-> "ready"]
    /\ cAttempt = [i \in Callers |-> 0]
    /\ cLastError = [i \in Callers |-> Undefined]
    /\ cCalls = [i \in Callers |-> 0]
    /\ cThrown = [i \in Callers |-> Undefined]
    /\ cOutcome = [i \in Callers |-> Undefined]
    /\ cOrder = <<>>

\* lines 74-81: call i starts, attempt = 0
ConcStart(i) ==
    /\ cpc[i] = "ready"
    /\ cAttempt' = [cAttempt EXCEPT ![AttemptSlot(i)] = 0]
    /\ cpc' = [cpc EXCEPT ![i] = "loop"]
    /\ UNCHANGED <<cRetries, cLastError, cCalls, cThrown, cOutcome, cOrder>>

\* lines 81-83: the loop condition holds, fn is invoked and awaited
ConcCallFn(i) ==
    /\ cpc[i] = "loop"
    /\ LoopCondition(AttemptOf(i), cRetries[i])
    /\ cCalls' = [cCalls EXCEPT ![i] = @ + 1]
    /\ cOrder' = Append(cOrder, i)
    /\ cpc' = [cpc EXCEPT ![i] = "awaiting"]
    /\ UNCHANGED <<cRetries, cAttempt, cLastError, cThrown, cOutcome>>

\* line 83: fn resolves, the call returns its value
ConcFnResolves(i) ==
    /\ cpc[i] = "awaiting"
    /\ cOutcome' = [cOutcome EXCEPT ![i] = ResultValue(Tag(i, cCalls[i]))]
    /\ cpc' = [cpc EXCEPT ![i] = "resolved"]
    /\ UNCHANGED <<cRetries, cAttempt, cLastError, cCalls, cThrown, cOrder>>

\* lines 84-96: fn rejects; rethrow, or start the backoff timer
ConcFnRejects(i) ==
    /\ cpc[i] = "awaiting"
    /\ \E e \in ConcThrownValues(i, cCalls[i]) :
        /\ cThrown' = [cThrown EXCEPT ![i] = e]
        /\ cLastError' = [cLastError EXCEPT ![i] = e]
        /\ IF ~ShouldRetry(e, DefaultRetryableErrors)
              \/ Exhausted(AttemptOf(i), cRetries[i])
           THEN /\ cpc' = [cpc EXCEPT ![i] = "rejected"]
                /\ cOutcome' = [cOutcome EXCEPT ![i] = e]
           ELSE /\ cpc' = [cpc EXCEPT ![i] = "waiting"]
                /\ cOutcome' = cOutcome
    /\ UNCHANGED <<cRetries, cAttempt, cCalls, cOrder>>

\* lines 96, 81: the timer of call i fires, attempt++
ConcTimerFires(i) ==
    /\ cpc[i] = "waiting"
    /\ cAttempt' = [cAttempt EXCEPT ![AttemptSlot(i)] = @ + 1]
    /\ cpc' = [cpc EXCEPT ![i] = "loop"]
    /\ UNCHANGED <<cRetries, cLastError, cCalls, cThrown, cOutcome, cOrder>>

Starts == \E i \in Callers : ConcStart(i) /\ UNCHANGED nonConcVars
CallsFn == \E i \in Callers : ConcCallFn(i) /\ UNCHANGED nonConcVars
OneResolves == \E i \in Callers : ConcFnResolves(i) /\ UNCHANGED nonConcVars
OneRejects == \E i \in Callers : ConcFnRejects(i) /\ UNCHANGED nonConcVars
OneTimerFires == \E i \in Callers : ConcTimerFires(i) /\ UNCHANGED nonConcVars

ConcNext ==
    \/ Starts
    \/ CallsFn
    \/ OneResolves
    \/ OneRejects
    \/ OneTimerFires

ConcSpecInit ==
    ConcInit /\ RetryIdle /\ ApiIdle /\ TimeIdle /\ LoginIdle /\ SchemaIdle /\ FillIdle
        /\ SearchIdle
        /\ CfgIdle
        /\ ClickIdle
        /\ CartIdle

ConcSpec == ConcSpecInit /\ [][ConcNext]_vars

----------------------------------------------------------------------------
(* Properties of interleaved retryOnError calls *)

ConcRunning == cpc # <<>>

----------------------------------------------------------------------------
(* apiConfig under any API_ENV, and its uses:                              *)
(* src/unnamed/part_012:7-48, src/unnamed/part_007:32,211-218,             *)
(* src/utils/apiTestUtils.ts:44,76                                         *)

\* API_ENV values: the valid ones, two outside the table, and the name of a
\* member every object inherits
EnvValuesAny ==
    EnvValues \cup { EnvSet(v) : v \in {"prod", "DEV", "constructor"} }

ProfileNames == {"local", "dev", "staging", "production"}
InheritedNames == {"constructor", "toString", "hasOwnProperty"}

\* part_012:48, environments[currentEnv]: a profile, an inherited member of
\* the table object (a function, none of the four properties), or undefined
LoadedConfig(env) ==
    IF CurrentEnv(env) \in ProfileNames
    THEN [kind |-> "profile", profile |-> CurrentEnv(env)]
    ELSE IF CurrentEnv(env) \in InheritedNames
    THEN [kind |-> "inherited", profile |-> "none"]
    ELSE [kind |-> "undefined", profile |-> "none"]

\* String.prototype.startsWith
StartsWith(s, prefix) ==
    Len(s) >= Len(prefix) /\ SubSeq(s, 1, Len(prefix)) = prefix

\* endpoints handed to getFullUrl, `http` being a token of its own
Endpoints ==
    { <<"/", "users">>,
      <<"/", "products", "?", "page=2">>,
      <<"users">>,
      <<>>,
      <<"http", "://", "localhost:3000", "/", "users">>,
      <<"http", "s", "://", "api.example.com", "/", "users">>,
      <<"http", "-status", "/", "404">>,
      <<"ftp", "://", "files.example.com", "/", "export">>,
      <<"HTTP", "S", "://", "api.example.com", "/", "users">> }

UseGetFullUrl(e) == [kind |-> "getFullUrl", endpoint |-> e, supplied |-> FALSE]
UseRetryOnError(sup) == [kind |-> "retryOnError", endpoint |-> <<>>, supplied |-> sup]
UseAssertResponseTime(sup) ==
    [kind |-> "assertResponseTime", endpoint |-> <<>>, supplied |-> sup]
UseRequestTimeout == [kind |-> "request", endpoint |-> <<>>, supplied |-> FALSE]

\* the places that read apiConfig; `supplied` says whether the caller gave
\* the argument whose default reads it
ConfigUses ==
    { UseGetFullUrl(e) : e \in Endpoints }
    \cup { UseRetryOnError(b) : b \in BOOLEAN }
    \cup { UseAssertResponseTime(b) : b \in BOOLEAN }
    \cup { UseRequestTimeout }

UseTypeError == [kind |-> "TypeError", url |-> <<>>, num |-> 0]
UseUndefined == [kind |-> "undefined", url |-> <<>>, num |-> 0]
UseNumber(n) == [kind |-> "number", url |-> <<>>, num |-> n]
UseUrl(u) == [kind |-> "url", url |-> u, num |-> 0]
UseArgument == [kind |-> "argument", url |-> <<>>, num |-> 0]

\* apiConfig.<prop>: a number of the profile, undefined on an object without
\* the property, a TypeError on undefined
ReadNumber(cfg, prop) ==
    IF cfg.kind = "profile" THEN UseNumber(Environments[cfg.profile][prop])
    ELSE IF cfg.kind = "inherited" THEN UseUndefined
    ELSE UseTypeError

\* part_007:211-218
GetFullUrl(cfg, e) ==
    IF StartsWith(e, <<"http">>) THEN UseUrl(e)
    ELSE IF cfg.kind = "profile" THEN UseUrl(<<Environments[cfg.profile].baseUrl>> \o e)
    ELSE IF cfg.kind = "inherited" THEN UseUrl(<<"undefined">> \o e)
    ELSE UseTypeError

\* a default parameter reads apiConfig only when the argument is omitted
DefaultParameterAlways(cfg, prop, sup) == ReadNumber(cfg, prop)

\* apiTestUtils.ts:44 and 76: `param = apiConfig.<prop>`
DefaultParameter(cfg, prop, sup) ==
    IF sup THEN UseArgument ELSE ReadNumber(cfg, prop)

ConfigInit ==
    /\ gEnv \in EnvValuesAny
    /\ gUse \in ConfigUses
    /\ gConfig = <<>>
    /\ gpc = "load"
    /\ gResult = <<>>

\* part_012:10,48: the config module is evaluated
LoadConfig ==
    /\ gpc = "load"
    /\ gConfig' = LoadedConfig(gEnv)
    /\ gpc' = "use"
    /\ UNCHANGED <<gEnv, gUse, gResult>>
    /\ UNCHANGED nonCfgVars

\* part_007:211-218: getFullUrl(endpoint)
UsesGetFullUrl ==
    /\ gpc = "use"
    /\ gUse.kind = "getFullUrl"
    /\ gResult' = GetFullUrl(gConfig, gUse.endpoint)
    /\ gpc' = "done"
    /\ UNCHANGED <<gEnv, gConfig, gUse>>
    /\ UNCHANGED nonCfgVars

\* apiTestUtils.ts:76: retryOnError's parameter `retries`
UsesDefaultRetries ==
    /\ gpc = "use"
    /\ gUse.kind = "retryOnError"
    /\ gResult' = DefaultParameter(gConfig, "authRetryAttempts", gUse.supplied)
    /\ gpc' = "done"
    /\ UNCHANGED <<gEnv, gConfig, gUse>>
    /\ UNCHANGED nonCfgVars

\* apiTestUtils.ts:44: assertResponseTime's parameter `maxTime`
UsesDefaultMaxTime ==
    /\ gpc = "use"
    /\ gUse.kind = "assertResponseTime"
    /\ gResult' = DefaultParameter(gConfig, "maxResponseTimeMs", gUse.supplied)
    /\ gpc' = "done"
    /\ UNCHANGED <<gEnv, gConfig, gUse>>
    /\ UNCHANGED nonCfgVars

\* part_007:32,72,112,150: `timeout: apiConfig.timeoutMs` of a request
UsesRequestTimeout ==
    /\ gpc = "use"
    /\ gUse.kind = "request"
    /\ gResult' = ReadNumber(gConfig, "timeoutMs")
    /\ gpc' = "done"
    /\ UNCHANGED <<gEnv, gConfig, gUse>>
    /\ UNCHANGED nonCfgVars

ConfigNext ==
    \/ LoadConfig
    \/ UsesGetFullUrl
    \/ UsesDefaultRetries
    \/ UsesDefaultMaxTime
    \/ UsesRequestTimeout

ConfigSpecInit ==
    ConfigInit /\ RetryIdle /\ ApiIdle /\ TimeIdle /\ LoginIdle /\ SchemaIdle /\ FillIdle
        /\ SearchIdle /\ ConcIdle /\ ClickIdle
        /\ CartIdle

ConfigSpec == ConfigSpecInit /\ [][ConfigNext]_vars

----------------------------------------------------------------------------
(* Properties of getFullUrl and of apiConfig under any API_ENV *)

UseDone == gpc = "done"

\* an absolute URL: a scheme, then `://`
IsAbsoluteUrl(e) ==
    \E k \in 2..Len(e) : e[k] = "://" /\ \A j \in 1..(k - 1) : e[j] \notin {"/", "?"}

\* C21: getFullUrl returns the endpoint unchanged if and only if the
\* endpoint is an absolute URL; for every other endpoint it returns
\* apiConfig.baseUrl immediately followed by the endpoint.
C21_AbsoluteIffUnchanged ==
    UseDone /\ gUse.kind = "getFullUrl" /\ gConfig.kind = "profile" =>
        /\ gResult.kind = "url"
        /\ gResult.url = gUse.endpoint <=> IsAbsoluteUrl(gUse.endpoint)
        /\ ~IsAbsoluteUrl(gUse.endpoint) =>
              gResult.url = <<Environments[gConfig.profile].baseUrl>> \o gUse.endpoint

----------------------------------------------------------------------------
(* CheckoutPage.proceedToCheckout / continueToPayment:                     *)
(* src/unnamed/part_010:525-622, 816-907                                   *)

\* part_010:538-546
CheckoutSelectors ==
    << "[data-test=\"proceed-1\"]", "button:has-text(\"Proceed to Checkout\")",
       "button:has-text(\"Checkout\")", "a:has-text(\"Proceed to Checkout\")",
       "a:has-text(\"Checkout\")", ".checkout-button", ".btn-success" >>

\* part_010:831-837
ContinueSelectors ==
    << "[data-test=\"proceed-3\"]", "button:has-text(\"Continue to Payment\")",
       "button:has-text(\"Continue\")", "[type=\"submit\"]", ".btn-primary" >>

\* part_010:585 and 868: where the last-resort search looks
FallbackSelector(m) ==
    IF m = "proceedToCheckout" THEN "button.btn-primary, button.btn-success" ELSE "button"

ButtonSelectors == IF kMethod = "proceedToCheckout" THEN CheckoutSelectors ELSE ContinueSelectors

\* lines 525-548, 816-839: the method is entered, the loop starts
ClickInit ==
    /\ kMethod \in {"proceedToCheckout", "continueToPayment"}
    /\ kIdx = 1
    /\ kpc = "loop"
    /\ kClicked = FALSE
    /\ kClicks = <<>>
    /\ kFallback = FALSE

\* lines 550-578, 841-862: the button is missing or hidden, or count,
\* scrollIntoViewIfNeeded, isVisible or click throws: on to the next one
ButtonNotClicked ==
    /\ kpc = "loop"
    /\ kIdx <= Len(ButtonSelectors)
    /\ kIdx' = kIdx + 1
    /\ UNCHANGED <<kMethod, kpc, kClicked, kClicks, kFallback>>
    /\ UNCHANGED nonClickVars

\* lines 555-567, 845-854: the button exists and is visible, click resolves
ButtonClicked ==
    /\ kpc = "loop"
    /\ kIdx <= Len(ButtonSelectors)
    /\ kClicks' = Append(kClicks, ButtonSelectors[kIdx])
    /\ kClicked' = TRUE
    /\ kpc' = "navigation"
    /\ UNCHANGED <<kMethod, kIdx, kFallback>>
    /\ UNCHANGED nonClickVars

\* lines 570-572, 857-859: the waits resolve, break
NavigationSettles ==
    /\ kpc = "navigation"
    /\ kpc' = "afterLoop"
    /\ UNCHANGED <<kMethod, kIdx, kClicked, kClicks, kFallback>>
    /\ UNCHANGED nonClickVars

\* lines 570-571, 576-578, 857-858, 860-862: waitForLoadState throws inside
\* the try, the loop's catch logs it and the loop goes on with the next selector
NavigationWaitThrows ==
    /\ kpc = "navigation"
    /\ kIdx' = kIdx + 1
    /\ kpc' = "loop"
    /\ UNCHANGED <<kMethod, kClicked, kClicks, kFallback>>
    /\ UNCHANGED nonClickVars

\* lines 550, 841: no selector is left
ButtonLoopOver ==
    /\ kpc = "loop"
    /\ kIdx > Len(ButtonSelectors)
    /\ kpc' = "afterLoop"
    /\ UNCHANGED <<kMethod, kIdx, kClicked, kClicks, kFallback>>
    /\ UNCHANGED nonClickVars

\* lines 581, 864: a listed button was clicked, the fallback is skipped
FallbackSkipped ==
    /\ kpc = "afterLoop"
    /\ kClicked
    /\ kpc' = "formWait"
    /\ UNCHANGED <<kMethod, kIdx, kClicked, kClicks, kFallback>>
    /\ UNCHANGED nonClickVars

\* lines 581-601, 864-885: the fallback finds a button and clicks it; the
\* waits that follow end the search whether they resolve or throw
FallbackClicks ==
    /\ kpc = "afterLoop"
    /\ ~kClicked
    /\ kFallback' = TRUE
    /\ kClicks' = Append(kClicks, FallbackSelector(kMethod))
    /\ kClicked' = TRUE
    /\ kpc' = "formWait"
    /\ UNCHANGED <<kMethod, kIdx>>
    /\ UNCHANGED nonClickVars

\* lines 581-601, 864-885: the fallback finds nothing to click, or throws
FallbackFindsNothing ==
    /\ kpc = "afterLoop"
    /\ ~kClicked
    /\ kFallback' = TRUE
    /\ kpc' = "formWait"
    /\ UNCHANGED <<kMethod, kIdx, kClicked, kClicks>>
    /\ UNCHANGED nonClickVars

\* lines 604-621, 888-906: the wait for the next form and the screenshot,
\* both tolerant of failure; the method returns
MethodReturns ==
    /\ kpc = "formWait"
    /\ kpc' = "done"
    /\ UNCHANGED <<kMethod, kIdx, kClicked, kClicks, kFallback>>
    /\ UNCHANGED nonClickVars

ClickNext ==
    \/ ButtonNotClicked
    \/ ButtonClicked
    \/ NavigationSettles
    \/ NavigationWaitThrows
    \/ ButtonLoopOver
    \/ FallbackSkipped
    \/ FallbackClicks
    \/ FallbackFindsNothing
    \/ MethodReturns

ClickSpecInit ==
    ClickInit /\ RetryIdle /\ ApiIdle /\ TimeIdle /\ LoginIdle /\ SchemaIdle /\ FillIdle
        /\ SearchIdle /\ ConcIdle /\ CfgIdle
        /\ CartIdle

ClickSpec == ClickSpecInit /\ [][ClickNext]_vars

----------------------------------------------------------------------------
(* Properties of proceedToCheckout / continueToPayment *)

ClickRunning == kpc # "idle"
ListedClicks == SelectSeq(kClicks, LAMBDA c : c # FallbackSelector(kMethod))

RECURSIVE InListOrder(_, _)
\* the clicks follow the priority order of the selector list
InListOrder(clicks, sels) ==
    IF clicks = <<>> THEN TRUE
    ELSE IF sels = <<>> THEN FALSE
    ELSE IF clicks[1] = sels[1] THEN InListOrder(Tail(clicks), Tail(sels))
    ELSE InListOrder(clicks, Tail(sels))

\* C22: proceedToCheckout and continueToPayment try their button selectors
\* in the listed order and stop at the first successful click: in one call
\* at most one button is clicked, whatever the later wait-for-navigation
\* steps do, and the last-resort search runs only when no listed selector
\* was clicked.
C22_AtMostOneClick ==
    ClickRunning =>
        /\ InListOrder(ListedClicks, ButtonSelectors)
        /\ Len(kClicks) <= 1
        /\ kFallback => ListedClicks = <<>>

----------------------------------------------------------------------------
(* CheckoutPage.updateQuantity / removeItem:                               *)
(* src/unnamed/part_010:285-520, src/pages/checkoutPage.ts:107-119         *)

MaxItems == 2

ItemNames == { <<"Combination", "Pliers">>, <<"Bolt", "Cutters">>, <<"Claw", "Hammer">> }
Item(name, quantity) == [name |-> name, quantity |-> quantity]
Items == { Item(n, q) : n \in ItemNames, q \in 1..2 }

\* a cart lists a product once
Carts ==
    { c \in UNION { [1..n -> Items] : n \in 0..MaxItems } :
        \A i, j \in DOMAIN c : c[i].name = c[j].name => i = j }

\* part_010: rows of a table with data-test attributes (line 297), elements
\* of class cart-item (line 328), or neither; checkoutPage.ts: tr.align-middle
Layouts == {"table", "cards", "other"}

CartCall(impl, meth, productName, quantity) ==
    [impl |-> impl, method |-> meth, productName |-> productName, quantity |-> quantity]

ProductNameArguments == { <<"Pliers">>, <<"Claw", "Hammer">>, <<"Thor", "Hammer">>, <<"2">> }

CartCalls ==
    { CartCall(i, "removeItem", p, 0) : i \in {"part_010", "pages"}, p \in ProductNameArguments }
      \cup { CartCall(i, "updateQuantity", p, 3) :
               i \in {"part_010", "pages"}, p \in ProductNameArguments }

\* part_010:304, 337, 404, 452: name?.includes(productName)
NameMatches(item, productName) == Includes(item.name, productName)

\* checkoutPage.ts:108-109, 114-115: filter({ hasText: itemName }) looks at
\* the whole text of the row, the name and the quantity shown in it
RowText(item) == item.name \o <<ToString(item.quantity)>>
RowMatches(item, itemName) == Includes(RowText(item), itemName)

\* the first row, in page order, whose name contains productName; 0 if none
FirstMatch(cart, productName) ==
    IF \E i \in DOMAIN cart : NameMatches(cart[i], productName)
        THEN CHOOSE i \in DOMAIN cart :
                 /\ NameMatches(cart[i], productName)
                 /\ \A j \in 1..(i - 1) : ~NameMatches(cart[j], productName)
        ELSE 0

RemoveAt(cart, i) == [j \in 1..(Len(cart) - 1) |-> IF j < i THEN cart[j] ELSE cart[j + 1]]
FillQuantity(cart, i, quantity) == [cart EXCEPT ![i].quantity = quantity]

\* the effect of the click on the remove control / of clear and fill on the
\* quantity input of item i
UseControl(cart, i, call) ==
    IF call.method = "removeItem" THEN RemoveAt(cart, i)
    ELSE FillQuantity(cart, i, call.quantity)

\* part_010:290-293, 390-393; checkoutPage.ts:107, 113
CartInit ==
    /\ bCart \in Carts
    /\ bCart0 = bCart
    /\ bLayout \in Layouts
    /\ bCall \in CartCalls
    /\ bpc = IF bCall.impl = "part_010" THEN "approach1" ELSE "pages"
    /\ bDone = FALSE
    /\ bTouched = <<>>

\* shared by the approaches that act on item i
ActsOn(i, next) ==
    /\ bCart' = UseControl(bCart, i, bCall)
    /\ bTouched' = Append(bTouched, bCart[i].name)
    /\ bDone' = TRUE
    /\ bpc' = next
    /\ UNCHANGED <<bCart0, bLayout, bCall>>
    /\ UNCHANGED nonCartVars

MovesOn(next) ==
    /\ bpc' = next
    /\ UNCHANGED <<bCart, bCart0, bLayout, bCall, bDone, bTouched>>
    /\ UNCHANGED nonCartVars

\* part_010:296-318, 396-433: the row with the name is found and its control used
Approach1Acts ==
    /\ bpc = "approach1"
    /\ bLayout = "table"
    /\ FirstMatch(bCart, bCall.productName) # 0
    /\ ActsOn(FirstMatch(bCart, bCall.productName), "approach2")

\* part_010:296-323, 396-438: no rows, no matching name, no control in the
\* matching row, or a step throws and the catch logs it
Approach1FindsNothing ==
    /\ bpc = "approach1"
    /\ MovesOn("approach2")

\* part_010:326, 441: if (!quantityUpdated) / if (!itemRemoved)
Approach2Skipped ==
    /\ bpc = "approach2"
    /\ bDone
    /\ MovesOn("approach3")

\* part_010:326-355, 441-477
Approach2Acts ==
    /\ bpc = "approach2"
    /\ ~bDone
    /\ bLayout = "cards"
    /\ FirstMatch(bCart, bCall.productName) # 0
    /\ ActsOn(FirstMatch(bCart, bCall.productName), "approach3")

\* part_010:326-359, 441-481
Approach2FindsNothing ==
    /\ bpc = "approach2"
    /\ ~bDone
    /\ MovesOn("approach3")

\* part_010:362, 484
Approach3Skipped ==
    /\ bpc = "approach3"
    /\ bDone
    /\ MovesOn("returned")

\* part_010:362-375, 484-511: quantityInputs[0] / removeButtons[0], the
\* control of the first item on the page, whatever its name
Approach3Acts ==
    /\ bpc = "approach3"
    /\ ~bDone
    /\ bCart # <<>>
    /\ ActsOn(1, "returned")

\* part_010:362-384, 484-520: no control on the page, or a step throws
Approach3FindsNothing ==
    /\ bpc = "approach3"
    /\ ~bDone
    /\ MovesOn("returned")

\* checkoutPage.ts:107-119: exactly one row has the text, its control is used
PagesActs ==
    /\ bpc = "pages"
    /\ \E i \in DOMAIN bCart :
         /\ RowMatches(bCart[i], bCall.productName)
         /\ \A j \in DOMAIN bCart : RowMatches(bCart[j], bCall.productName) => j = i
         /\ ActsOn(i, "returned")

\* checkoutPage.ts:107-119: no row or several rows have the text, or the
\* control is missing: fill / click throws
PagesThrows ==
    /\ bpc = "pages"
    /\ MovesOn("thrown")

CartNext ==
    \/ Approach1Acts
    \/ Approach1FindsNothing
    \/ Approach2Skipped
    \/ Approach2Acts
    \/ Approach2FindsNothing
    \/ Approach3Skipped
    \/ Approach3Acts
    \/ Approach3FindsNothing
    \/ PagesActs
    \/ PagesThrows

CartSpecInit ==
    CartInit /\ RetryIdle /\ ApiIdle /\ TimeIdle /\ LoginIdle /\ SchemaIdle /\ FillIdle
        /\ SearchIdle /\ ConcIdle /\ CfgIdle /\ ClickIdle

CartSpec == CartSpecInit /\ [][CartNext]_vars

----------------------------------------------------------------------------
(* Properties of updateQuantity / removeItem *)

CartRunning == bpc # "idle"
SomeItemMatches == \E i \in DOMAIN bCart0 : NameMatches(bCart0[i], bCall.productName)

\* C23: removeItem(productName) and updateQuantity(productName, quantity)
\* act only on the cart item whose name contains productName: they never
\* click a remove control or change a quantity input of a different item,
\* and when no item matches the cart is left unchanged.
C23_OnlyTheNamedItem ==
    CartRunning =>
        /\ \A k \in DOMAIN bTouched : Includes(bTouched[k], bCall.productName)
        /\ ~SomeItemMatches => bCart = bCart0

----------------------------------------------------------------------------
(* Properties of the ApiPage requests *)

Finished == apc = "done"

InSuccessRange(st) == st \in 200..299

\* the request got past the status check, or had none
StatusPassed ==
    /\ response.received
    /\ options.validateStatus = "false" \/ InSuccessRange(response.status)

ParsedBody == JsonParse(response.body)

FailsSchema ==
    /\ options.schema # NoSchema
    /\ ParsedBody.ok
    /\ SchemaViolations(ParsedBody.val, options.schema) # <<>>

\* C7: with validateStatus at its default, a request whose response status
\* is outside [200,300) is rejected with an error whose message contains
\* the status code and the stringified JSON body, or the raw text, or 'No
\* response body' for an empty non-JSON body; a status inside the range
\* never produces a status error.
C7_StatusValidation ==
    LET msg == apiResult.error.message IN
    /\ ( /\ response.received
         /\ options.validateStatus = "undefined"
         /\ apc \in {"parsing", "measuring", "done"}
         /\ ~InSuccessRange(response.status) )
       => /\ apc = "done"
          /\ apiResult.state = "rejected"
          /\ apiResult.error.kind = "status"
          /\ Includes(msg, <<ToString(response.status)>>)
          /\ IF ParsedBody.ok THEN Includes(msg, JsonStringify(ParsedBody.val))
             ELSE IF response.body = <<>> THEN Includes(msg, <<"No", "response", "body">>)
             ELSE Includes(msg, response.body)
          /\ (response.status = 404 /\ response.body \in {BodyUserNotFound, BodyUserNotFoundSpaced})
                => /\ Includes(msg, <<"404">>)
                   /\ Includes(msg, <<"User", "not", "found">>)
                   /\ msg = <<"API", "Error", "(", "404", "):">> \o BodyUserNotFound
    /\ (response.received /\ InSuccessRange(response.status))
       => apiResult.error.kind # "status"

C7_Witness ==
    /\ Finished
    /\ method = "delete"
    /\ options.validateStatus = "undefined"
    /\ response.status = 404
    /\ response.body = BodyUserNotFoundSpaced
    /\ apiResult.state = "rejected"
    /\ apiResult.error.kind = "status"

\* C8 (as stated): for get, post, put and delete, a request with a schema
\* whose parsed response body violates the schema is rejected with a
\* schema-validation error instead of resolving.
C8_SchemaMismatchFails ==
    (apc \in {"measuring", "done"} /\ StatusPassed /\ FailsSchema)
        => /\ apc = "done"
           /\ apiResult.state = "rejected"
           /\ apiResult.error.kind = "schema"

\* C9 (as stated): when maxResponseTime is supplied, the request is
\* rejected whenever the time spent in the HTTP call, the status check,
\* the body parse and the schema check together exceeds it, and resolves
\* when that time is within the bound and every other check passes.
C9_TimeBudgetEnforced ==
    (Finished /\ options.maxSupplied /\ response.received)
        => /\ TotalMs(phases) > options.maxResponseTime => apiResult.state = "rejected"
           /\ ( /\ TotalMs(phases) <= options.maxResponseTime
                /\ StatusPassed
                /\ method # "delete" => (ParsedBody.ok /\ ~FailsSchema) )
              => apiResult.state = "resolved"

\* C10 (as stated): delete on a response that passes the status check and
\* whose body is not JSON raises no error and resolves with data = null,
\* the status and the headers; resolved data is null exactly when the
\* body failed to parse.
C10_DeleteNullIffUnparsable ==
    (Finished /\ method = "delete" /\ StatusPassed)
        => /\ ~ParsedBody.ok
              => /\ apiResult.state = "resolved"
                 /\ apiResult.data = JNull
                 /\ apiResult.status = response.status
                 /\ apiResult.headers = response.headers
           /\ apiResult.state = "resolved"
              => (apiResult.data = JNull <=> ~ParsedBody.ok)

\* C10 (amended): delete on a response that passes the status check and
\* whose body is not JSON raises no error from the parse: the only
\* rejection left is the response-time assertion of a supplied
\* maxResponseTime that was exceeded, and otherwise the call resolves with
\* data = null, the status and the headers; resolved data is null exactly
\* when the body failed to parse or is the JSON text null.
C10_DeleteToleratesUnparsable ==
    (Finished /\ method = "delete" /\ StatusPassed)
        => /\ apiResult.state \in {"resolved", "rejected"}
           /\ ~ParsedBody.ok
              => /\ apiResult.state = "rejected"
                    => /\ apiResult.error.kind = "timing"
                       /\ options.maxSupplied
                       /\ TotalMs(phases) > options.maxResponseTime
                 /\ apiResult.state = "resolved"
                    => /\ apiResult.data = JNull
                       /\ apiResult.status = response.status
                       /\ apiResult.headers = response.headers
           /\ apiResult.state = "resolved"
              => (apiResult.data = JNull <=> (~ParsedBody.ok \/ ParsedBody.val = JNull))

C10_Witness ==
    /\ Finished
    /\ method = "delete"
    /\ response.status = 204
    /\ response.body = BodyEmpty
    /\ apiResult.state = "resolved"
    /\ apiResult.data = JNull
    /\ apiResult.status = 204

----------------------------------------------------------------------------
(* Properties of retryOnError *)

\* the message of e contains at least one string of retryableErrors
MatchesRetryable(e) ==
    \E i \in DOMAIN retryableErrors : Includes(e.message, retryableErrors[i])

RetryableFailure(e) == e.kind = "Error" /\ MatchesRetryable(e)

AllAttemptsFailedRetryable ==
    /\ fnOutcomes # <<>>
    /\ \A i \in DOMAIN fnOutcomes : RetryableFailure(fnOutcomes[i])

LastOutcome == fnOutcomes[Len(fnOutcomes)]

\* C1: for retries >= 0, one call of retryOnError invokes fn at most
\* retries+1 times, and exactly retries+1 times once it has ended with
\* every attempt failing with a retryable error.
C1_BoundedAttempts ==
    retries >= 0 =>
        /\ NumCalls(trace) <= retries + 1
        /\ (Settled /\ AllAttemptsFailedRetryable) => NumCalls(trace) = retries + 1

C1_Witness ==
    /\ retries = 2
    /\ Settled
    /\ AllAttemptsFailedRetryable
    /\ NumCalls(trace) = 3

\* C2: every attempt but the latest ended in a failure whose message
\* contains a retryable string; a failure whose message contains none is
\* rethrown at once: the call is rejected with that error, fn is not
\* invoked again and no backoff timer is started, even with attempts left.
C2_RetryOnlyOnRetryable ==
    /\ \A i \in 1..(NumCalls(trace) - 1) : RetryableFailure(fnOutcomes[i])
    /\ ( /\ Len(fnOutcomes) = NumCalls(trace)
         /\ fnOutcomes # <<>>
         /\ LastOutcome.kind = "Error"
         /\ ~MatchesRetryable(LastOutcome) )
       => /\ pc = "rejected"
          /\ outcome = LastOutcome
          /\ trace[Len(trace)].ev = "call"

C2_Witness ==
    /\ retries = 2
    /\ attempt = 0
    /\ pc = "rejected"
    /\ retryableErrors = <<RateLimitExceeded>>
    /\ fnOutcomes = <<ErrorValue(<<"Rate", "limit">>, 1)>>
    /\ outcome = fnOutcomes[1]
    /\ Waits(trace) = <<>>

\* C3 (as stated): every call ends either by returning the value of the
\* first attempt that succeeds or by throwing the very value the last
\* attempt threw, for every retries value and every thrown value.
C3_ReturnsOrRethrowsLast ==
    Settled =>
        /\ fnOutcomes # <<>>
        /\ outcome = LastOutcome
        /\ pc = "resolved" <=> LastOutcome.kind = "value"
        /\ \A i \in 1..(Len(fnOutcomes) - 1) : fnOutcomes[i].kind # "value"

\* C4: attempts are sequential: the trace starts with an invocation, an
\* invocation follows either nothing or an elapsed timer, a timer is
\* started only right after an invocation and elapses before anything
\* else happens, and a call that has ended has nothing after its final
\* invocation.
C4_SequentialAttempts ==
    /\ \A i \in DOMAIN trace :
          /\ (i = 1) => trace[i].ev = "call"
          /\ (i > 1 /\ trace[i].ev = "call") => trace[i - 1].ev = "fired"
          /\ trace[i].ev = "wait" => (i > 1 /\ trace[i - 1].ev = "call")
          /\ trace[i].ev = "fired" => (i > 1 /\ trace[i - 1].ev = "wait")
    /\ \A i \in 1..(Len(fnOutcomes) - 1) :
          Len(Waits(trace)) >= i /\ RetryableFailure(fnOutcomes[i])
    /\ Settled => (trace = <<>> \/ trace[Len(trace)].ev = "call")
    /\ Settled => Len(Waits(trace)) = NumCalls(trace) - (IF trace = <<>> THEN 0 ELSE 1)

C4_Witness ==
    /\ pc = "rejected"
    /\ retries = 2
    /\ AllAttemptsFailedRetryable
    /\ trace = <<Event("call", 0), Event("wait", 100), Event("fired", 0),
                 Event("call", 0), Event("wait", 200), Event("fired", 0),
                 Event("call", 0)>>

\* C5: the k-th backoff wait (k from 0) is 2^k * 100 ms, i.e. 100, 200,
\* 400, ..., and a call in which all retries+1 attempts fail with
\* retryable errors has waited 100 * (2^retries - 1) ms in total.
C5_ExponentialBackoff ==
    LET w == Waits(trace) IN
    /\ \A k \in DOMAIN w : w[k] = Pow(2, k - 1) * 100
    /\ Len(w) >= 1 => w[1] = 100
    /\ \A k \in 2..Len(w) : w[k] = 2 * w[k - 1]
    /\ (retries >= 0 /\ Settled /\ AllAttemptsFailedRetryable)
          => Sum(w) = 100 * (Pow(2, retries) - 1)

C5_Witness ==
    /\ retries = 3
    /\ Settled
    /\ AllAttemptsFailedRetryable
    /\ Waits(trace) = <<100, 200, 400>>
    /\ Sum(Waits(trace)) = 700

\* C6: with retries = 0 fn is invoked exactly once and no backoff timer
\* is ever started, whatever the outcome of fn.
C6_ZeroRetries ==
    retries = 0 =>
        /\ NumCalls(trace) <= 1
        /\ Waits(trace) = <<>>
        /\ Settled => NumCalls(trace) = 1

C6_Witness ==
    /\ retries = 0
    /\ pc = "rejected"
    /\ NumCalls(trace) = 1
    /\ RetryableFailure(LastOutcome)
    /\ Waits(trace) = <<>>

----------------------------------------------------------------------------
(* Properties of OrdersApi.createOrder *)

\* part_007:427-434: createOrder is this.post(endpoints.orders.base,
\* orderData, { ...options, headers: { ..., 'x-expected-status': '201' } });
\* the header goes out with the request, validateStatus, schema and
\* maxResponseTime are the caller's
CreateOrderRequest == "post"

IsCreateOrder == method = CreateOrderRequest

\* C24: createOrder expects status 201: with status validation enabled, a
\* response with any other status, 200 and 204 included, makes it fail.
C24_CreateOrderExpects201 ==
    (Finished /\ IsCreateOrder /\ ValidateStatus(options) /\ response.received
        /\ response.status # 201)
        => apiResult.state = "rejected"


----------------------------------------------------------------------------
(* Properties of UsersApi.login against rate limiting and bad credentials *)

\* the error post rejects with for an answer of the login endpoint
StatusErrorOf(st, body) ==
    ErrorOf("status", StatusErrorMessage([received |-> TRUE, status |-> st, body |-> body,
                                          headers |-> "json-headers"]))

RateLimitFailure == StatusErrorOf(429, BodyRateLimit)
InvalidCredentialsFailure == StatusErrorOf(401, BodyInvalidCredentials)

LoginRetried == Len(lWaits)

\* C25: UsersApi.login retries exactly when the failure message contains
\* 'Token expired' or 'Rate limit exceeded': the rateLimitError answer
\* (429) is retried until authRetryAttempts + 1 POSTs have been issued and
\* login then fails with the last error, while the invalidAuthentication
\* answer (401) is never retried, so a login answered 401 from the start
\* fails after exactly one POST.
C25_LoginRetriesRateLimitOnly ==
    /\ lpc = "waiting" =>
          /\ lLastError # NoError
          /\ \/ Includes(lLastError.message, TokenExpired)
             \/ Includes(lLastError.message, RateLimitExceeded)
    /\ Includes(RateLimitFailure.message, RateLimitExceeded)
    /\ (lpc = "done" /\ lResult.state = "rejected" /\ lResult.error = RateLimitFailure) =>
          /\ Len(lPosts) = lConfig.authRetryAttempts + 1
          /\ LoginRetried = lConfig.authRetryAttempts
          /\ \A k \in DOMAIN lWaits : lWaits[k].attempt = k - 1
          /\ lResult.error = lLastError
    /\ (lpc # "idle" /\ lLastError = InvalidCredentialsFailure) =>
          /\ lpc = "done"
          /\ lResult = Rejected(InvalidCredentialsFailure)
          /\ Len(lPosts) = LoginRetried + 1
          /\ lPosts[Len(lPosts)].attempt = LoginRetried
    /\ (lpc = "done" /\ lResult.state = "rejected" /\ LoginRetried = 0
          /\ lConfig.authRetryAttempts > 0) =>
          /\ Len(lPosts) = 1
          /\ ~Includes(lResult.error.message, RateLimitExceeded)

\* login against a server that always answers 429 in the production
\* profile: four POSTs, then the rate-limit error
C25_Witness ==
    /\ lpc = "done"
    /\ lConfig.authRetryAttempts = 3
    /\ Len(lPosts) = 4
    /\ lResult = Rejected(RateLimitFailure)


----------------------------------------------------------------------------
(* Properties of the order of the checks in get / post / put *)

FailsStatus == ValidateStatus(options) /\ ~StatusOk(response.status)
FailsParse == ~ParsedBody.ok
SlowRequest == Timed(options) /\ TotalMs(phases) > options.maxResponseTime

RECURSIVE PhasesInOrder(_, _)
\* the phases of a request follow the order of `names`
PhasesInOrder(ph, names) ==
    IF ph = <<>> THEN TRUE
    ELSE IF names = <<>> THEN FALSE
    ELSE IF ph[1].phase = names[1] THEN PhasesInOrder(Tail(ph), Tail(names))
    ELSE PhasesInOrder(ph, Tail(names))

\* C26: when a response fails several checks at once, get, post and put
\* report the status error first, then the body-parse error, then the
\* schema error; the response-time assertion is evaluated only if all of
\* them pass, so a slow request that also fails another check is rejected
\* with that check's error and never with the timing error.
C26_CheckOrder ==
    (method \in {"get", "post", "put"} /\ response.received) =>
        /\ PhasesInOrder(phases, <<"http", "status", "parse", "schema">>)
        /\ apc = "measuring" => (~FailsStatus /\ ~FailsParse /\ ~FailsSchema)
        /\ Finished =>
              /\ apiResult.error.kind =
                    IF FailsStatus THEN "status"
                    ELSE IF FailsParse THEN "parse"
                    ELSE IF FailsSchema THEN "schema"
                    ELSE IF Timed(options) /\ elapsed > options.maxResponseTime THEN "timing"
                    ELSE "none"
              /\ apiResult.error.kind = "timing" =>
                    (~FailsStatus /\ ~FailsParse /\ ~FailsSchema)

\* a slow post whose 2xx body parses but violates the schema: schema error
C26_Witness ==
    /\ Finished
    /\ method = "post"
    /\ response.received
    /\ SlowRequest
    /\ ~FailsStatus
    /\ FailsSchema
    /\ apiResult.state = "rejected"
    /\ apiResult.error.kind = "schema"


----------------------------------------------------------------------------
(* Properties of retryOnError outside its intended inputs *)

\* the loop has ended without `return` or `throw` inside it: line 100 is next
AtFinalThrow == pc = "loop" /\ ~LoopCondition(attempt, retries)

MessagelessFailure ==
    /\ fnOutcomes # <<>>
    /\ LastOutcome.kind \in {"string", "null", "undefined", "object"}

\* C28 (as stated): when fn rejects with a value that has no string
\* message, retryOnError does not rethrow it: the retryability check
\* throws a TypeError, which replaces the value, and no further attempt
\* is made.
C28_TypeErrorReplacesValue ==
    MessagelessFailure =>
        /\ pc = "rejected"
        /\ outcome.kind = "TypeError"
        /\ outcome # LastOutcome
        /\ NumCalls(trace) = Len(fnOutcomes)

\* C28 (amended): with a non-empty retryableErrors list, the default
\* included, the check throws a TypeError which replaces the value; with
\* an empty list the callback never runs and the value itself is rethrown;
\* in both cases no further attempt is made.
C28_TypeErrorUnlessEmptyList ==
    MessagelessFailure =>
        /\ pc = "rejected"
        /\ NumCalls(trace) = Len(fnOutcomes)
        /\ Len(retryableErrors) > 0 =>
              /\ outcome = TypeErrorValue(Len(fnOutcomes))
              /\ outcome # LastOutcome
        /\ Len(retryableErrors) = 0 => outcome = LastOutcome

\* a plain object thrown by the second invocation under the default list
C28_Witness ==
    /\ retryableErrors = DefaultRetryableErrors
    /\ Len(fnOutcomes) = 2
    /\ LastOutcome = ObjectValue(2)
    /\ pc = "rejected"
    /\ outcome = TypeErrorValue(2)


----------------------------------------------------------------------------
(* Properties of a zero maxResponseTime *)

ZeroLimit == options.maxSupplied /\ options.maxResponseTime = 0

\* what requestFn alone settles with for the response received
RequestFnOutcome ==
    IF FailsStatus THEN Rejected(ErrorOf("status", StatusErrorMessage(response)))
    ELSE IF method = "delete" THEN DeleteBodyOutcome(options, response)
    ELSE JsonBodyOutcome(options, response)

\* C29: get, post, put and delete treat maxResponseTime = 0 like an absent
\* maxResponseTime: no response-time assertion is made and the request
\* settles with what requestFn gives, however long it took; the assertion
\* is applied only for a non-zero maxResponseTime.
C29_ZeroLimitIsNoLimit ==
    /\ (ZeroLimit /\ apc # "idle") =>
          /\ apc # "measuring"
          /\ startTime = 0 /\ elapsed = 0
          /\ apiResult.error.kind # "timing"
          /\ (Finished /\ response.received) => apiResult = RequestFnOutcome
    /\ (apc = "measuring" \/ apiResult.error.kind = "timing") =>
          (options.maxSupplied /\ options.maxResponseTime # 0)

\* a put with maxResponseTime = 0 that took 100 ms and resolves
C29_Witness ==
    /\ Finished
    /\ method = "put"
    /\ ZeroLimit
    /\ TotalMs(phases) = 100
    /\ apiResult.state = "resolved"


----------------------------------------------------------------------------
(* Properties of apiConfig under an API_ENV outside the table *)

ConfigLoaded == gpc \in {"use", "done"}
OutsideTable == gEnv.set /\ gEnv.value # "" /\ gEnv.value \notin ProfileNames
FallsBackToDev == ~gEnv.set \/ gEnv.value = ""

\* the use reads apiConfig as the claim lists it: getFullUrl, the request
\* timeout, and a default parameter of a call that omits the argument
ListedUse == gUse.kind \in {"getFullUrl", "request"} \/ ~gUse.supplied

\* C30 (as stated): with API_ENV set to a non-empty value outside local,
\* dev, staging and production, apiConfig is undefined, and every later
\* use of it (retryOnError's default retries, assertResponseTime's default
\* limit, getFullUrl, the request timeout) fails with a TypeError; only an
\* unset or empty API_ENV falls back to the dev profile.
C30_UnknownEnvEveryUseFails ==
    ConfigLoaded =>
        /\ OutsideTable =>
              /\ gConfig.kind = "undefined"
              /\ (UseDone /\ ListedUse) => gResult = UseTypeError
        /\ FallsBackToDev => gConfig = [kind |-> "profile", profile |-> "dev"]

\* C30 (amended): such an API_ENV gives no profile and no default. When
\* it names no member of the table object at all, apiConfig is undefined:
\* a default parameter read because the argument is omitted and the
\* request timeout fail with a TypeError, and so does getFullUrl unless
\* the endpoint starts with 'http', which is returned before apiConfig is
\* read. When it names a member every object inherits, apiConfig is that
\* member: the reads give undefined and getFullUrl prefixes 'undefined',
\* without a TypeError. A supplied argument never reads apiConfig. Only an
\* unset or empty API_ENV falls back to the dev profile.
C30_UnknownEnvReadsFail ==
    ConfigLoaded =>
        /\ OutsideTable => gConfig.kind \in {"undefined", "inherited"}
        /\ gConfig.kind = "inherited" <=> (gEnv.set /\ gEnv.value \in InheritedNames)
        /\ FallsBackToDev => gConfig = [kind |-> "profile", profile |-> "dev"]
        /\ (gEnv.set /\ gEnv.value \in ProfileNames) =>
              gConfig = [kind |-> "profile", profile |-> gEnv.value]
        /\ (UseDone /\ OutsideTable) =>
              IF gUse.kind = "getFullUrl"
              THEN IF StartsWith(gUse.endpoint, <<"http">>) THEN gResult = UseUrl(gUse.endpoint)
                   ELSE IF gConfig.kind = "undefined" THEN gResult = UseTypeError
                   ELSE gResult = UseUrl(<<"undefined">> \o gUse.endpoint)
              ELSE IF gUse.supplied THEN gResult = UseArgument
              ELSE IF gConfig.kind = "undefined" THEN gResult = UseTypeError
              ELSE gResult = UseUndefined

\* API_ENV=prod, retryOnError(fn) with retries omitted: TypeError
C30_Witness ==
    /\ UseDone
    /\ gEnv = EnvSet("prod")
    /\ gConfig.kind = "undefined"
    /\ gUse = UseRetryOnError(FALSE)
    /\ gResult = UseTypeError


TypeOK ==
    /\ pc \in {"loop", "awaiting", "waiting", "resolved", "rejected"}
    /\ attempt \in 0..(MaxRetries + 2)

====
